---- MODULE Spec2Model ----
(***************************************************************************)
(* A model of the ClickUp synchronisation engine: the sliding-window rate  *)
(* limiter (src/lib/services/rate-limiter.ts), the rate-limited API client *)
(* (src/lib/clickup/client.ts), the full sync (src/lib/clickup/sync.ts)    *)
(* and the webhook delta processor (src/lib/clickup/webhook-handler.ts).   *)
(*                                                                         *)
(* Time is counted in ticks of 100 ms, the poll interval of waitForSlot.   *)
(* An action is the code that runs between two awaits: JavaScript runs it  *)
(* to completion, so it is atomic with respect to every other caller.      *)
(***************************************************************************)
EXTENDS Integers, Sequences, FiniteSets, TLC

VARIABLES
    now,        \* Date.now(), in ticks
    requests,   \* RateLimiter.requests of each limiter instance: key -> log
    calls,      \* observer: every checkLimit call made so far, in order
    waiter,     \* callers of checkLimit / waitForSlot
    fetcher,    \* callers of ClickUpClient.fetch
    httpLog,    \* observer: every HTTP request sent to the remote API
    callbackUrl,    \* process.env.CLICKUP_WEBHOOK_CALLBACK_URL, or NULL
    remoteTasks,    \* the remote list: the id of each task it holds -> the task
    remoteWebhooks, \* the ids of the webhooks that exist at the remote service
    lists,          \* table lists_CAG_custom
    tasks,          \* table tasks_CAG_custom
    comments,       \* table comments_CAG_custom
    webhooks,       \* table webhooks_CAG_custom
    history,        \* table task_due_date_history, in insertion order
    sync,           \* the runs of syncList
    hdl,            \* the runs of handleWebhookEvent
    ops,            \* the number of syncList and handleWebhookEvent calls so far
    changes,        \* the number of changes made to the remote list so far
    secret,         \* process.env.CLICKUP_WEBHOOK_SECRET, or NULL
    post,           \* the last POST the webhook route has received, and its response
    folder,         \* the run of a folder-level sync
    remoteComments, \* the comments that exist at the remote service
    del,            \* the run of deleteList
    res,            \* the resolution of a list URL at the start of syncList
    pager,          \* the run of getTasks, page by page
    retry,          \* the run of retryOpenAICall
    stamps          \* the columns last_synced of the list rows and last_event_at
                    \* of the webhook rows, by row id

limiterVars == <<now, requests, calls, waiter, fetcher, httpLog>>
storeVars == <<lists, tasks, comments, webhooks, history>>
remoteVars == <<remoteTasks, remoteWebhooks, changes>>
runVars == <<remoteComments, del, res, pager, retry>>
edgeVars == <<secret, post, folder, runVars, stamps>>
engineVars == <<callbackUrl, remoteVars, storeVars, sync, hdl, ops, edgeVars>>
vars == <<limiterVars, engineVars>>

NULL == "null"

----------------------------------------------------------------------------
(* Bounds of the model *)

MaxTime == 5        \* the clock stops here
MaxRequests == 2    \* config.maxRequests, scaled down from 100
WindowMs == 3       \* config.windowMs in ticks, scaled down from 600
MaxCalls == 5       \* checkLimit calls observed in one behaviour
MaxHttp == 4        \* HTTP requests sent in one behaviour
MaxOps == 2         \* syncList and handleWebhookEvent calls in one behaviour
MaxChanges == 1     \* changes of the remote list in one behaviour
MaxWebhooks == 2    \* webhooks created at the remote service
MaxHistory == 2     \* rows of task_due_date_history
BatchSize == 1      \* BATCH_SIZE of syncList, scaled down from 100
FolderSize == 4     \* the number of lists in the folder

Waiters == {"w1", "w2", "w3"}
Fetchers == {"f1", "f2"}
Syncs == {"s1", "s2"}
Handlers == {"h1"}

----------------------------------------------------------------------------
(* RateLimiter *)

\* the two instances ClickUpClient.fetch waits on, and the bucket of each
Limiters == {"clickupRateLimiter", "clickupMinuteRateLimiter"}

BucketKey(l) ==
    IF l = "clickupRateLimiter" THEN "clickup-api" ELSE "clickup-api-minute"

\* this.requests.get(key) || []
Get(reqs, key) == IF key \in DOMAIN reqs THEN reqs[key] ELSE <<>>

\* this.requests.set(key, v)
MapSet(reqs, key, v) ==
    [k \in (DOMAIN reqs) \cup {key} |-> IF k = key THEN v ELSE reqs[k]]

\* a filter that keeps the request made exactly windowMs ago (>= for >)
FilterInclusive(log, windowStart) ==
    LET inWindow(ts) == ts >= windowStart
    IN  SelectSeq(log, inWindow)

\* keyRequests.filter((req) => req.timestamp > windowStart)
Filter(log, windowStart) ==
    LET inWindow(ts) == ts > windowStart
    IN  SelectSeq(log, inWindow)

\* a cleanup that drops every bucket
CleanupDropsAll(reqs, t) == [k \in {} |-> <<>>]

\* cleanup(): drops the keys with no request in the window, prunes the others
Cleanup(reqs, t) ==
    LET windowStart == t - WindowMs
        kept == {k \in DOMAIN reqs : Filter(reqs[k], windowStart) # <<>>}
    IN  [k \in kept |-> Filter(reqs[k], windowStart)]

\* a checkLimit whose append is lost: it stores a log holding only its own
\* timestamp, as a write based on a stale read of the bucket would
CheckLimitLostUpdate(reqs, key, t, rnd) ==
    LET windowStart == t - WindowMs
        keyRequests == SelectSeq(Get(reqs, key), LAMBDA ts : ts > windowStart)
    IN  IF Len(keyRequests) >= MaxRequests
        THEN [ok |-> FALSE, requests |-> MapSet(reqs, key, keyRequests)]
        ELSE [ok |-> TRUE, requests |-> MapSet(reqs, key, <<t>>)]

\* checkLimit(key) called at time t; rnd says whether Math.random() < 0.01.
\* The result and the new value of this.requests.
\* a limiter that records the refused requests too
CheckLimitCountsRefused(reqs, key, t, rnd) ==
    LET windowStart == t - WindowMs
        keyRequests == Filter(Get(reqs, key), windowStart)
    IN  IF Len(keyRequests) >= MaxRequests
        THEN [ok |-> FALSE, requests |-> MapSet(reqs, key, Append(keyRequests, t))]
        ELSE LET added == MapSet(reqs, key, Append(keyRequests, t))
             IN  [ok |-> TRUE,
                  requests |-> IF rnd THEN Cleanup(added, t) ELSE added]

CheckLimit(reqs, key, t, rnd) ==
    LET windowStart == t - WindowMs
        keyRequests == Filter(Get(reqs, key), windowStart)
    IN  IF Len(keyRequests) >= MaxRequests
        THEN [ok |-> FALSE, requests |-> MapSet(reqs, key, keyRequests)]
        ELSE LET added == MapSet(reqs, key, Append(keyRequests, t))
             IN  [ok |-> TRUE,
                  requests |-> IF rnd THEN Cleanup(added, t) ELSE added]

\* reset(key): this.requests.delete(key)
Delete(reqs, key) == [k \in (DOMAIN reqs) \ {key} |-> reqs[k]]

----------------------------------------------------------------------------
(* Several buckets of one limiter *)

Keys2 == {"k1", "k2"}

\* checkLimit(key) on the limiter RL at the time now; every turn of the loop of
\* waitForSlot(key) is such a call
CheckLimitOn(key, rnd) ==
    /\ requests' = [requests EXCEPT !["clickupRateLimiter"] = CheckLimit(@, key, now, rnd).requests]
    /\ UNCHANGED <<now, calls, waiter, fetcher, httpLog, engineVars>>

\* reset(key) on the limiter RL
Reset(key) ==
    /\ key \in DOMAIN requests["clickupRateLimiter"]
    /\ requests' = [requests EXCEPT !["clickupRateLimiter"] = Delete(@, key)]
    /\ UNCHANGED <<now, calls, waiter, fetcher, httpLog, engineVars>>

----------------------------------------------------------------------------
(* Callers of one limiter: checkLimit and waitForSlot on 'clickup-api' *)

RL == "clickupRateLimiter"

Logged(key, ok) == Append(calls, [key |-> key, t |-> now, ok |-> ok])

\* a direct, non-blocking checkLimit(key)
CallCheckLimit(w) ==
    /\ waiter[w] = "idle"
    /\ Len(calls) < MaxCalls
    /\ \E rnd \in BOOLEAN :
         LET r == CheckLimit(requests[RL], BucketKey(RL), now, rnd)
         IN  /\ requests' = [requests EXCEPT ![RL] = r.requests]
             /\ calls' = Logged(BucketKey(RL), r.ok)
    /\ UNCHANGED <<now, waiter, fetcher, httpLog, engineVars>>

\* waitForSlot(key): the call and its first checkLimit, or a re-check after the
\* 100 ms timer; it returns when checkLimit returned true, else sleeps again
WaitForSlot(w) ==
    /\ waiter[w] \in {"idle", "ready"}
    /\ Len(calls) < MaxCalls
    /\ \E rnd \in BOOLEAN :
         LET r == CheckLimit(requests[RL], BucketKey(RL), now, rnd)
         IN  /\ requests' = [requests EXCEPT ![RL] = r.requests]
             /\ calls' = Logged(BucketKey(RL), r.ok)
             /\ waiter' = [waiter EXCEPT ![w] = IF r.ok THEN "idle" ELSE "sleep"]
    /\ UNCHANGED <<now, fetcher, httpLog, engineVars>>

\* a timer that never fires
NeverWoken(pc) == pc

\* 100 ms pass: every setTimeout(resolve, 100) pending has expired
Woken(pc) ==
    CASE pc = "sleep" -> "ready"
      [] pc = "sleep1" -> "ready1"
      [] pc = "sleep2" -> "ready2"
      [] OTHER -> pc

Tick ==
    /\ now < MaxTime
    /\ now' = now + 1
    /\ waiter' = [w \in Waiters |-> Woken(waiter[w])]
    /\ fetcher' = [f \in Fetchers |-> [fetcher[f] EXCEPT !.pc = Woken(@)]]
    /\ UNCHANGED <<requests, calls, httpLog, engineVars>>

----------------------------------------------------------------------------
(* ClickUpClient.fetch *)

\* The run of fetch from one await to the next. A fetcher at "idle" enters
\* fetch; at "ready1"/"ready2" it re-checks the bucket it sleeps on. When
\* waitForSlot returns, fetch goes on in the same turn of the event loop: to
\* the second bucket, and from there to the HTTP request.
InFlight == {f \in Fetchers : fetcher[f].pc # "idle"}

\* a fetch that sends the request without waiting on the second bucket
SecondWaitSkipped(f, reqs, slots) ==
    /\ requests' = reqs
    /\ httpLog' = Append(httpLog, [t |-> now, slots |-> slots])
    /\ fetcher' = [fetcher EXCEPT ![f] = [pc |-> "idle", slots |-> {}]]

\* await clickupMinuteRateLimiter.waitForSlot('clickup-api-minute'); fetch(...)
SecondWait(f, reqs, slots) ==
    \E rnd \in BOOLEAN :
      LET l2 == "clickupMinuteRateLimiter"
          r == CheckLimit(reqs[l2], BucketKey(l2), now, rnd)
      IN  /\ requests' = [reqs EXCEPT ![l2] = r.requests]
          /\ IF r.ok
             THEN /\ httpLog' = Append(httpLog,
                        [t |-> now, slots |-> slots \cup {BucketKey(l2)}])
                  /\ fetcher' = [fetcher EXCEPT ![f] = [pc |-> "idle", slots |-> {}]]
             ELSE /\ httpLog' = httpLog
                  /\ fetcher' = [fetcher EXCEPT ![f] = [pc |-> "sleep2", slots |-> slots]]

\* await clickupRateLimiter.waitForSlot('clickup-api'), and what follows it
FirstWait(f) ==
    \E rnd \in BOOLEAN :
      LET l1 == "clickupRateLimiter"
          r == CheckLimit(requests[l1], BucketKey(l1), now, rnd)
          reqs == [requests EXCEPT ![l1] = r.requests]
      IN  IF r.ok
          THEN SecondWait(f, reqs, {BucketKey(l1)})
          ELSE /\ requests' = reqs
               /\ fetcher' = [fetcher EXCEPT ![f] = [pc |-> "sleep1", slots |-> {}]]
               /\ httpLog' = httpLog

Fetch(f) ==
    /\ fetcher[f].pc \in {"idle", "ready1", "ready2"}
    /\ fetcher[f].pc = "idle" => Len(httpLog) + Cardinality(InFlight) < MaxHttp
    /\ IF fetcher[f].pc = "ready2"
       THEN SecondWait(f, requests, fetcher[f].slots)
       ELSE FirstWait(f)
    /\ UNCHANGED <<now, calls, waiter, engineVars>>

----------------------------------------------------------------------------
(* The remote service *)

TaskIds == {"A", "B"}
TaskOrder == <<"A", "B">>       \* the order in which the remote API lists tasks
ListId == "L1"                  \* the remote id of the list that is synced

\* ClickUpTask.due_date and date_closed: Unix milliseconds, as strings
DueMs == {"1736035200000", "1736640000000"}
ClosedMs == "1736899200000"

\* what the model keeps of a ClickUpTask
RemoteTask == [due_date : DueMs \cup {NULL}, status_type : {"open", "closed"}]

\* the tasks of the list when the program starts: open, some with a due date
InitialTask == {r \in RemoteTask : r.status_type = "open" /\ r.due_date \in {NULL, "1736035200000"}}

\* the task as the remote API returns it
ApiTask(id) ==
    [id |-> id,
     due_date |-> remoteTasks[id].due_date,
     status_type |-> remoteTasks[id].status_type,
     date_closed |-> IF remoteTasks[id].status_type = "closed" THEN ClosedMs ELSE NULL]

\* GET /list/{id}/task: the remote service leaves closed tasks out unless the
\* request carries include_closed=true
ListTasksResponse(include_closed) ==
    LET listed(id) == /\ id \in DOMAIN remoteTasks
                      /\ (include_closed \/ remoteTasks[id].status_type # "closed")
        ids == SelectSeq(TaskOrder, listed)
    IN  [i \in 1..Len(ids) |-> ApiTask(ids[i])]

\* the query string of getTasks:
\* archived=false&include_markdown_description=true&subtasks=true&page=N
GetTasksQuery == [archived |-> FALSE, subtasks |-> TRUE, include_closed |-> FALSE]

\* clickupClient.getTasks(listId), for a list of less than one page
GetTasks == ListTasksResponse(GetTasksQuery.include_closed)

\* changes made to the list at the remote service, by its users
RemoteCreateTask(t, due) ==
    /\ changes < MaxChanges
    /\ t \notin DOMAIN remoteTasks
    /\ remoteTasks' = [x \in (DOMAIN remoteTasks) \cup {t} |->
                         IF x = t THEN [due_date |-> due, status_type |-> "open"]
                         ELSE remoteTasks[x]]
    /\ changes' = changes + 1
    /\ UNCHANGED <<limiterVars, callbackUrl, remoteWebhooks, storeVars, sync, hdl, ops, edgeVars>>

RemoteSetDueDate(t, due) ==
    /\ changes < MaxChanges
    /\ t \in DOMAIN remoteTasks
    /\ remoteTasks[t].due_date # due
    /\ remoteTasks' = [remoteTasks EXCEPT ![t].due_date = due]
    /\ changes' = changes + 1
    /\ UNCHANGED <<limiterVars, callbackUrl, remoteWebhooks, storeVars, sync, hdl, ops, edgeVars>>

RemoteCloseTask(t) ==
    /\ changes < MaxChanges
    /\ t \in DOMAIN remoteTasks
    /\ remoteTasks[t].status_type = "open"
    /\ remoteTasks' = [remoteTasks EXCEPT ![t].status_type = "closed"]
    /\ changes' = changes + 1
    /\ UNCHANGED <<limiterVars, callbackUrl, remoteWebhooks, storeVars, sync, hdl, ops, edgeVars>>

RemoteDeleteTask(t) ==
    /\ changes < MaxChanges
    /\ t \in DOMAIN remoteTasks
    /\ remoteTasks' = [x \in (DOMAIN remoteTasks) \ {t} |-> remoteTasks[x]]
    /\ changes' = changes + 1
    /\ UNCHANGED <<limiterVars, callbackUrl, remoteWebhooks, storeVars, sync, hdl, ops, edgeVars>>

----------------------------------------------------------------------------
(* Conversions of timestamps *)

\* new Date(parseInt(ms)).toISOString()
ParseIntToISOString(ms) ==
    CASE ms = "1736035200000" -> "2025-01-05T00:00:00.000Z"
      [] ms = "1736640000000" -> "2025-01-12T00:00:00.000Z"
      [] ms = "1736899200000" -> "2025-01-15T00:00:00.000Z"

\* new Date(ms).toISOString(), without parseInt: a string of digits is not a
\* date string, the Date is invalid and toISOString throws
RangeError == "RangeError: Invalid time value"
NewDateToISOString(ms) == RangeError

\* a TIMESTAMPTZ column: the text a select returns for the value written
Timestamptz(iso) ==
    CASE iso = NULL -> NULL
      [] iso = "2025-01-05T00:00:00.000Z" -> "2025-01-05T00:00:00+00:00"
      [] iso = "2025-01-12T00:00:00.000Z" -> "2025-01-12T00:00:00+00:00"
      [] iso = "2025-01-15T00:00:00.000Z" -> "2025-01-15T00:00:00+00:00"

----------------------------------------------------------------------------
(* The relational store *)

\* uuid_generate_v4(): an id no row of the table has
FreshId(rows) ==
    CHOOSE n \in 1..(Cardinality(rows) + 1) :
        /\ \A r \in rows : r.id # n
        /\ \A m \in 1..(n - 1) : \E r \in rows : r.id = m

\* a variant of .single() that never returns a row
SingleNoData(rows) == {}

\* .single(): the data is the row if the query matches exactly one row, and
\* null otherwise. A nullable row is the set of at most one row; The(data)
\* is the row of a data that is not null.
Single(rows) == IF Cardinality(rows) = 1 THEN rows ELSE {}

The(data) == CHOOSE r \in data : TRUE

\* .upsert(row, { onConflict: 'clickup_list_id' }) on lists_CAG_custom
UpsertList(tbl, clickup_list_id) ==
    IF \E r \in tbl : r.clickup_list_id = clickup_list_id
    THEN tbl
    ELSE tbl \cup {[id |-> FreshId(tbl), clickup_list_id |-> clickup_list_id]}

\* a variant of the mapping that drops the due date
TaskRowWithoutDueDate(list_id, task) ==
    [list_id |-> list_id,
     clickup_task_id |-> task.id,
     due_date |-> NULL,
     status_type |-> task.status_type]

\* the row of tasks_CAG_custom that a task maps to; date_closed is a column
\* too, but mapping a task that has one throws (MapThrows)
TaskRow(list_id, task) ==
    [list_id |-> list_id,
     clickup_task_id |-> task.id,
     due_date |-> IF task.due_date # NULL THEN ParseIntToISOString(task.due_date) ELSE NULL,
     status_type |-> task.status_type]

\* date_closed: task.date_closed ? new Date(task.date_closed).toISOString() : null
MapThrows(task) ==
    task.date_closed # NULL /\ NewDateToISOString(task.date_closed) = RangeError

\* an insert that does not look for the row that has the remote id
InsertTask(tbl, row) ==
    tbl \cup {[id |-> FreshId(tbl),
                list_id |-> row.list_id,
                clickup_task_id |-> row.clickup_task_id,
                due_date |-> Timestamptz(row.due_date),
                status_type |-> row.status_type]}

\* one row of .upsert(..., { onConflict: 'clickup_task_id' }): overwrite the
\* row that has the remote id, or insert a new one
UpsertTask(tbl, row) ==
    LET stored == [list_id |-> row.list_id,
                   clickup_task_id |-> row.clickup_task_id,
                   due_date |-> Timestamptz(row.due_date),
                   status_type |-> row.status_type]
        hit == {r \in tbl : r.clickup_task_id = row.clickup_task_id}
    IN  IF hit = {}
        THEN tbl \cup {[id |-> FreshId(tbl)] @@ stored}
        ELSE (tbl \ hit) \cup {[id |-> r.id] @@ stored : r \in hit}

RECURSIVE UpsertTasks(_, _)
UpsertTasks(tbl, batch) ==
    IF batch = <<>> THEN tbl
    ELSE UpsertTasks(UpsertTask(tbl, Head(batch)), Tail(batch))

\* the foreign key of tasks_CAG_custom.list_id
ListExists(list_id) == \E l \in lists : l.id = list_id

\* .delete().eq('clickup_task_id', taskId), with ON DELETE CASCADE to the
\* comments and to the due-date history of the task
\* the delete of the task rows without the cascade of 003_comments_table.sql
DeleteTaskRowsOnly(taskId) ==
    /\ tasks' = {r \in tasks : r.clickup_task_id # taskId}
    /\ comments' = comments
    /\ history' = history

DeleteTaskRows(taskId) ==
    LET gone == {r.id : r \in {x \in tasks : x.clickup_task_id = taskId}}
    IN  /\ tasks' = {r \in tasks : r.clickup_task_id # taskId}
        /\ comments' = {c \in comments : c.task_id \notin gone}
        /\ history' = SelectSeq(history, LAMBDA row : row.task_id \notin gone)

\* the remote ids of the stored tasks
StoredTaskIds == {r.clickup_task_id : r \in tasks}

\* .from(table).select('id').eq('clickup_list_id', id).single(): the schema
\* has the lists in lists_CAG_custom, the only table with a clickup_list_id;
\* a query on any other table returns an error and no data
SelectList(table, clickup_list_id) ==
    IF table = "lists_CAG_custom"
    THEN Single({l \in lists : l.clickup_list_id = clickup_list_id})
    ELSE {}

ActiveWebhooks(list_id) == {w \in webhooks : w.list_id = list_id /\ w.is_active}

----------------------------------------------------------------------------
(* syncList *)

\* list and webhook hold ids, 0 before there is one; deleted is an observer:
\* the tasks that a taskDeleted event has removed from the store while this
\* run was between its fetch and the end of its upserts
SyncIdle == [pc |-> "idle", list |-> 0, tasksData |-> <<>>, i |-> 0,
             existingWebhook |-> {}, webhook |-> 0, deleted |-> {}]

SlotOrder == [s \in Syncs |-> IF s = "s1" THEN 1 ELSE 2]

Running(pc) == pc \notin {"idle", "done", "failed", "caught", "thrown"}

\* syncList throws: its catch block logs the error and throws it again
Thrown(s) == [sync EXCEPT ![s] = [SyncIdle EXCEPT !.pc = "failed"]]

\* a batch error that is ignored: the loop goes on to the next batch
BatchErrorIgnored(s) ==
    [sync EXCEPT ![s].i = @ + BatchSize,
                 ![s].pc = IF sync[s].i + BatchSize < Len(sync[s].tasksData)
                           THEN "upsertTasks" ELSE "registerWebhook"]

\* throw new Error(`Failed to upsert tasks (batch ${i / BATCH_SIZE + 1}): ...`):
\* the error that syncList throws names the batch, by the value of i
ThrownInBatch(s) == [sync EXCEPT ![s] = [SyncIdle EXCEPT !.pc = "failed", !.i = sync[s].i]]

\* a registration error that is thrown on to the caller of syncList
RegistrationRethrown(s) == [sync EXCEPT ![s] = [SyncIdle EXCEPT !.pc = "failed"]]

\* the catch block of registerWebhook: the error is logged, registerWebhook
\* returns and syncList returns its result
RegistrationCaught(s) == [sync EXCEPT ![s].pc = "done"]

\* the value syncList returns: { success: true, list, stats }
SyncResult(s) ==
    [success |-> sync[s].pc = "done",
     list |-> sync[s].list,
     stats |-> [tasks |-> Len(sync[s].tasksData), comments |-> 0]]

SyncUnchanged == <<limiterVars, callbackUrl, remoteTasks, changes, hdl, secret, post, folder, runVars>>

\* syncList(listId) is called: getList, getSpace and getWorkspaces. A run
\* takes the first slot that no run in progress holds.
SyncStart(s) ==
    /\ ~Running(sync[s].pc)
    /\ \A s2 \in Syncs : Running(sync[s2].pc) \/ SlotOrder[s] <= SlotOrder[s2]
    /\ ops < MaxOps
    /\ ops' = ops + 1
    /\ \E apiError \in BOOLEAN :
         sync' = [sync EXCEPT ![s] =
                    [SyncIdle EXCEPT !.pc = IF apiError THEN "failed" ELSE "upsertList"]]
    /\ UNCHANGED <<SyncUnchanged, stamps, remoteWebhooks, storeVars>>

\* 1. upsert list metadata
SyncUpsertList(s) ==
    /\ sync[s].pc = "upsertList"
    /\ \E listError \in BOOLEAN :
         IF listError
         THEN /\ sync' = Thrown(s)
              /\ lists' = lists
              /\ stamps' = stamps
         ELSE /\ lists' = UpsertList(lists, ListId)
              /\ sync' = [sync EXCEPT ![s].pc = "getTasks",
                                     ![s].list = The({l \in lists' : l.clickup_list_id = ListId}).id]
              /\ stamps' = [stamps EXCEPT !.last_synced = (sync'[s].list :> now) @@ @]
    /\ UNCHANGED <<SyncUnchanged, remoteWebhooks, tasks, comments, webhooks, history, ops>>

\* 2. fetch all tasks and map them to rows
SyncGetTasks(s) ==
    /\ sync[s].pc = "getTasks"
    /\ \E apiError \in BOOLEAN :
         LET tasksData == GetTasks
             thrown == apiError \/ \E i \in 1..Len(tasksData) : MapThrows(tasksData[i])
         IN  sync' = IF thrown
                     THEN Thrown(s)
                     ELSE [sync EXCEPT ![s].pc = IF tasksData = <<>> THEN "registerWebhook"
                                                 ELSE "upsertTasks",
                                       ![s].tasksData = tasksData]
    /\ UNCHANGED <<SyncUnchanged, stamps, remoteWebhooks, storeVars, ops>>

\* a loop that upserts the first BATCH_SIZE rows in every round
BatchFromStart(s) ==
    LET rows == [k \in 1..Len(sync[s].tasksData) |-> TaskRow(sync[s].list, sync[s].tasksData[k])]
        last == IF BatchSize < Len(rows) THEN BatchSize ELSE Len(rows)
    IN  SubSeq(rows, 1, last)

\* tasksToUpsert.slice(i, i + BATCH_SIZE)
Batch(s) ==
    LET rows == [k \in 1..Len(sync[s].tasksData) |-> TaskRow(sync[s].list, sync[s].tasksData[k])]
        last == IF sync[s].i + BatchSize < Len(rows) THEN sync[s].i + BatchSize ELSE Len(rows)
    IN  SubSeq(rows, sync[s].i + 1, last)

\* one batch of the upsert loop
SyncUpsertBatch(s) ==
    /\ sync[s].pc = "upsertTasks"
    /\ \E storeError \in BOOLEAN :
         IF storeError \/ ~ListExists(sync[s].list)
         THEN /\ sync' = ThrownInBatch(s)
              /\ tasks' = tasks
         ELSE /\ tasks' = UpsertTasks(tasks, Batch(s))
              /\ sync' = [sync EXCEPT ![s].i = @ + BatchSize,
                                     ![s].pc = IF sync[s].i + BatchSize < Len(sync[s].tasksData)
                                               THEN "upsertTasks" ELSE "registerWebhook"]
    /\ UNCHANGED <<SyncUnchanged, stamps, remoteWebhooks, lists, comments, webhooks, history, ops>>

\* 4. registerWebhook: the check for an existing registration
SyncRegisterWebhook(s) ==
    /\ sync[s].pc = "registerWebhook"
    /\ LET existingWebhook == Single(ActiveWebhooks(sync[s].list))
       IN  sync' = [sync EXCEPT ![s].existingWebhook = IF callbackUrl = NULL THEN {} ELSE existingWebhook,
                                ![s].pc = IF callbackUrl = NULL \/ existingWebhook # {}
                                          THEN "done" ELSE "createWebhook"]
    /\ UNCHANGED <<SyncUnchanged, stamps, remoteWebhooks, storeVars, ops>>

\* clickupClient.createWebhook; an error is caught and logged
SyncCreateWebhook(s) ==
    /\ sync[s].pc = "createWebhook"
    /\ Cardinality(remoteWebhooks) < MaxWebhooks
    /\ \E apiError \in BOOLEAN :
         IF apiError
         THEN /\ sync' = RegistrationCaught(s)
              /\ remoteWebhooks' = remoteWebhooks
         ELSE LET id == CHOOSE n \in 1..(Cardinality(remoteWebhooks) + 1) : n \notin remoteWebhooks
              IN  /\ remoteWebhooks' = remoteWebhooks \cup {id}
                  /\ sync' = [sync EXCEPT ![s].pc = "insertWebhook", ![s].webhook = id]
    /\ UNCHANGED <<SyncUnchanged, stamps, storeVars, ops>>

\* the insert into webhooks_CAG_custom; an error is caught and logged
SyncInsertWebhook(s) ==
    /\ sync[s].pc = "insertWebhook"
    /\ \E storeError \in BOOLEAN :
         IF storeError \/ ~ListExists(sync[s].list)
         THEN /\ webhooks' = webhooks
              /\ sync' = RegistrationCaught(s)
         ELSE /\ webhooks' = webhooks \cup {[id |-> FreshId(webhooks),
                                              list_id |-> sync[s].list,
                                              clickup_webhook_id |-> sync[s].webhook,
                                              is_active |-> TRUE]}
              /\ sync' = [sync EXCEPT ![s].pc = "done"]
    /\ UNCHANGED <<SyncUnchanged, stamps, remoteWebhooks, lists, tasks, comments, history, ops>>

SyncStep(s) ==
    \/ SyncUpsertList(s)
    \/ SyncGetTasks(s)
    \/ SyncUpsertBatch(s)
    \/ SyncRegisterWebhook(s)
    \/ SyncCreateWebhook(s)
    \/ SyncInsertWebhook(s)

----------------------------------------------------------------------------
(* handleWebhookEvent *)

\* the event of a payload that carries none
NoEvent == [type |-> NULL]

\* a column without the rows that are deleted
Without(column, ids) == [id \in (DOMAIN column) \ ids |-> column[id]]

\* the value of a column in a row; -1 is null
Column(column, id) == IF id \in DOMAIN column THEN column[id] ELSE -1

\* the payload null (the JSON text "null"): it has no property to read
NullPayload == [event |-> [type |-> "TypeError"], task_id |-> NULL, list_id |-> NULL]

Payloads ==
    {[event |-> [type |-> e], task_id |-> t, list_id |-> ListId] :
        e \in {"taskCreated", "taskUpdated", "taskDeleted"}, t \in TaskIds}
    \cup {[event |-> NoEvent, task_id |-> "A", list_id |-> ListId],
          [event |-> [type |-> "listUpdated"], task_id |-> "A", list_id |-> ListId],
          [event |-> [type |-> "taskUpdated"], task_id |-> NULL, list_id |-> ListId]}

\* event.comment?.id
CommentId(event) == IF "comment" \in DOMAIN event THEN event.comment.id ELSE NULL

\* the payloads of the comment events; the last one names no comment
CommentIds == {"c1"}
Texts == {"x", "y"}
CommentPayloads ==
    {[event |-> [type |-> e, comment |-> [id |-> c]], task_id |-> t, list_id |-> ListId] :
        e \in {"taskCommentPosted", "taskCommentUpdated", "taskCommentDeleted"},
        c \in CommentIds, t \in {"A"}}
    \cup {[event |-> [type |-> "taskCommentUpdated"], task_id |-> "A", list_id |-> ListId]}

\* pc is "done" when the run has ended without an error, "failed" when it
\* has ended after an error of the remote API or of the store that the
\* handler of the event caught, and "caught" when it has ended in the catch
\* block of handleWebhookEvent; historyError is the error of the history
\* insert.
HdlIdle == [pc |-> "idle",
            payload |-> [event |-> NoEvent, task_id |-> NULL, list_id |-> NULL],
            taskData |-> {}, newDueDate |-> NULL, existingTask |-> {},
            historyError |-> FALSE, comment |-> {}]

HdlUnchanged == <<limiterVars, callbackUrl, remoteVars, secret, folder, runVars>>

\* the variant of the catch block that throws the error again
Rethrow(error) == "thrown"

\* the catch block of handleWebhookEvent: the error is logged and
\* { success: true, error: String(error) } is returned
Catch(error) == "caught"

\* what the promise of handleWebhookEvent settles to: { success: true }
\* after the switch, { success: true, error } from the catch block
Result(pc) ==
    [rejected |-> pc = "thrown",
     success |-> pc \in {"done", "failed", "caught"},
     error |-> pc = "caught"]

\* a dispatch whose default branch treats the event as a change of the task
DispatchDefaultFetches(payload) ==
    IF payload = NullPayload THEN Catch(payload.event.type)
    ELSE IF payload.event = NoEvent THEN "done"
    ELSE IF payload.task_id # NULL THEN "getTask" ELSE "done"

\* const { event, task_id, list_id } = payload, and the dispatch on
\* event.type: where the handler is at its first await, or how it has ended
Dispatch(payload) ==
    LET type == payload.event.type
    IN  CASE payload = NullPayload -> Catch(type)
          [] payload.event = NoEvent -> "done"
          [] type \in {"taskCreated", "taskUpdated"} /\ payload.task_id # NULL -> "getTask"
          [] type = "taskDeleted" /\ payload.task_id # NULL -> "deleteTask"
          [] type = "taskCommentPosted" /\ payload.task_id # NULL -> "selectCommentTask"
          [] type = "taskCommentUpdated" /\ CommentId(payload.event) # NULL -> "getComments"
          [] type = "taskCommentDeleted" /\ CommentId(payload.event) # NULL -> "deleteComment"
          [] OTHER -> "done"

\* the timestamps are written only after an event that was handled without
\* an error
AfterSuccess(pc, payload) ==
    pc = "done" /\ payload.event # NoEvent /\ payload.list_id # NULL

\* whether a run that is at pc has left the switch and calls
\* updateWebhookTimestamp: if (list_id) after the switch, which the return for
\* a payload without event and the catch block do not reach
AfterSwitch(pc, payload) ==
    pc \in {"done", "failed"} /\ payload.event # NoEvent /\ payload.list_id # NULL

\* updateWebhookTimestamp(clickupListId): the select of the internal list id
\* (nothing is written when it finds no single row), the update of
\* last_event_at in the registrations of the list and the update of
\* last_synced in the list row. The code does not read the errors of the two
\* updates, and the store is taken to execute them.
Stamped(st, clickupListId, t) ==
    LET list == Single({l \in lists : l.clickup_list_id = clickupListId})
        registrations == {w.id : w \in {x \in webhooks : x.list_id = The(list).id}}
    IN  IF list = {}
        THEN st
        ELSE [last_event_at |-> [id \in registrations |-> t] @@ st.last_event_at,
              last_synced |-> (The(list).id :> t) @@ st.last_synced]

\* the end of handleWebhookEvent: a step that leaves the switch goes on to
\* updateWebhookTimestamp
UpdateWebhookTimestamp(h) ==
    stamps' = IF AfterSwitch(hdl'[h].pc, hdl'[h].payload)
              THEN Stamped(stamps, hdl'[h].payload.list_id, now)
              ELSE stamps

\* the call handleWebhookEvent(payload), up to its first await
Invoke(h, payload) ==
    /\ ~Running(hdl[h].pc)
    /\ ops < MaxOps
    /\ ops' = ops + 1
    /\ hdl' = [hdl EXCEPT ![h] =
                 [HdlIdle EXCEPT !.pc = Dispatch(payload), !.payload = payload]]
    /\ UpdateWebhookTimestamp(h)

\* handleWebhookEvent(payload) is called
HandleWebhookEvent(h, payload) ==
    /\ Invoke(h, payload)
    /\ UNCHANGED <<HdlUnchanged, post, sync, storeVars>>

\* handleTaskUpdate: fetch the latest task data; an error (the task is gone,
\* or the call fails) is caught and logged
HandleGetTask(h) ==
    /\ hdl[h].pc = "getTask"
    /\ LET taskId == hdl[h].payload.task_id
       IN  \E apiError \in BOOLEAN :
             IF apiError \/ taskId \notin DOMAIN remoteTasks
             THEN hdl' = [hdl EXCEPT ![h].pc = "failed"]
             ELSE LET taskData == ApiTask(taskId)
                  IN  hdl' = [hdl EXCEPT
                         ![h].pc = "selectTask",
                         ![h].taskData = {taskData},
                         ![h].newDueDate = IF taskData.due_date # NULL
                                           THEN ParseIntToISOString(taskData.due_date)
                                           ELSE NULL]
    /\ UpdateWebhookTimestamp(h)
    /\ UNCHANGED <<HdlUnchanged, post, sync, storeVars, ops>>

\* oldDueDate !== newDueDate && (oldDueDate !== null || newDueDate !== null)
DueDateChanged(oldDueDate, newDueDate) ==
    oldDueDate # newDueDate /\ (oldDueDate # NULL \/ newDueDate # NULL)

\* the select of the stored task and the comparison of the due dates
HandleSelectTask(h) ==
    /\ hdl[h].pc = "selectTask"
    /\ LET existingTask == Single({r \in tasks : r.clickup_task_id = hdl[h].payload.task_id})
           log == /\ existingTask # {}
                  /\ DueDateChanged(The(existingTask).due_date, hdl[h].newDueDate)
       IN  hdl' = [hdl EXCEPT ![h].existingTask = existingTask,
                              ![h].pc = IF log THEN "insertHistory" ELSE "upsertTask"]
    /\ UpdateWebhookTimestamp(h)
    /\ UNCHANGED <<HdlUnchanged, post, sync, storeVars, ops>>

\* the insert into task_due_date_history; its error is not looked at
HandleInsertHistory(h) ==
    /\ hdl[h].pc = "insertHistory"
    /\ Len(history) < MaxHistory
    /\ \E storeError \in BOOLEAN :
         LET historyError == storeError \/ ~\E r \in tasks : r.id = The(hdl[h].existingTask).id
         IN  /\ history' = IF historyError
                            THEN history
                            ELSE Append(history,
                                   [task_id |-> The(hdl[h].existingTask).id,
                                    clickup_task_id |-> hdl[h].payload.task_id,
                                    old_due_date |-> The(hdl[h].existingTask).due_date,
                                    new_due_date |-> Timestamptz(hdl[h].newDueDate)])
             /\ hdl' = [hdl EXCEPT ![h].pc = "upsertTask", ![h].historyError = historyError]
    /\ UpdateWebhookTimestamp(h)
    /\ UNCHANGED <<HdlUnchanged, post, sync, lists, tasks, comments, webhooks, ops>>

\* the table handleTaskUpdate reads the internal list id from
ListTable == "lists"

\* handleTaskUpdate returns: what is kept of the run is the payload and the
\* task data it fetched
Returned(h, pc) ==
    [hdl EXCEPT ![h] = [HdlIdle EXCEPT !.pc = IF hdl[h].historyError THEN "failed" ELSE pc,
                                       !.payload = hdl[h].payload,
                                       !.taskData = hdl[h].taskData]]

\* the lookup of the internal list id and, if there is one, the upsert;
\* without a list the handler returns
HandleUpsertTask(h) ==
    /\ hdl[h].pc = "upsertTask"
    /\ LET list == SelectList(ListTable, hdl[h].payload.list_id)
       IN  IF list = {}
           THEN /\ tasks' = tasks
                /\ hdl' = Returned(h, "done")
           ELSE \E storeError \in BOOLEAN :
                  IF MapThrows(The(hdl[h].taskData)) \/ storeError
                  THEN /\ tasks' = tasks
                       /\ hdl' = Returned(h, "failed")
                  ELSE /\ tasks' = UpsertTask(tasks, TaskRow(The(list).id, The(hdl[h].taskData)))
                       /\ hdl' = Returned(h, "done")
    /\ UpdateWebhookTimestamp(h)
    /\ UNCHANGED <<HdlUnchanged, post, sync, lists, comments, webhooks, history, ops>>

\* handleTaskDelete
HandleTaskDelete(h) ==
    /\ hdl[h].pc = "deleteTask"
    /\ \E storeError \in BOOLEAN :
         IF storeError
         THEN /\ UNCHANGED <<tasks, comments, history, sync>>
              /\ hdl' = [hdl EXCEPT ![h].pc = "failed"]
         ELSE /\ DeleteTaskRows(hdl[h].payload.task_id)
              /\ sync' = [s \in Syncs |->
                            IF sync[s].pc = "upsertTasks"
                            THEN [sync[s] EXCEPT !.deleted =
                                    @ \cup ({hdl[h].payload.task_id} \cap StoredTaskIds)]
                            ELSE sync[s]]
              /\ hdl' = [hdl EXCEPT ![h].pc = "done"]
    /\ UpdateWebhookTimestamp(h)
    /\ UNCHANGED <<HdlUnchanged, post, lists, webhooks, ops>>

\* GET /task/{taskId}/comment: the comments of the task at the remote service
GetComments(taskId) == {c \in remoteComments : c.task = taskId}

\* .update({ text, ... }).eq('clickup_id', commentId): the rows that have the
\* remote id are changed, and there may be none; the task of the event is not
\* looked up
UpdateComment(tbl, comment) ==
    {IF r.clickup_id = comment.id THEN [r EXCEPT !.text = comment.text] ELSE r : r \in tbl}

\* .upsert({ task_id, clickup_id, text, ... }, { onConflict: 'clickup_id' })
UpsertComment(tbl, task_id, comment) ==
    LET hit == {r \in tbl : r.clickup_id = comment.id}
        stored == [task_id |-> task_id, clickup_id |-> comment.id, text |-> comment.text]
    IN  IF hit = {}
        THEN tbl \cup {[id |-> FreshId(tbl)] @@ stored}
        ELSE (tbl \ hit) \cup {[id |-> r.id] @@ stored : r \in hit}

\* handleCommentCreate: the select of the stored task; without it the handler
\* logs and returns
HandleCommentSelectTask(h) ==
    /\ hdl[h].pc = "selectCommentTask"
    /\ LET task == Single({r \in tasks : r.clickup_task_id = hdl[h].payload.task_id})
       IN  hdl' = [hdl EXCEPT ![h].existingTask = task,
                              ![h].pc = IF task = {} THEN "done" ELSE "getCommentsOfTask"]
    /\ UpdateWebhookTimestamp(h)
    /\ UNCHANGED <<HdlUnchanged, post, sync, storeVars, ops>>

\* getComments(taskId) and the find by event.comment?.id, in handleCommentCreate
\* (then the upsert is next) and in handleCommentUpdate (then the update);
\* an error of the call is caught, a comment that is not found ends the handler
HandleGetComments(h) ==
    /\ hdl[h].pc \in {"getCommentsOfTask", "getComments"}
    /\ LET taskId == hdl[h].payload.task_id
           comment == {c \in GetComments(taskId) : c.id = CommentId(hdl[h].payload.event)}
       IN  \E apiError \in BOOLEAN :
             IF apiError \/ taskId \notin DOMAIN remoteTasks
             THEN hdl' = [hdl EXCEPT ![h].pc = "failed"]
             ELSE hdl' = [hdl EXCEPT
                            ![h].comment = comment,
                            ![h].pc = IF comment = {} THEN "done"
                                      ELSE IF hdl[h].pc = "getCommentsOfTask"
                                      THEN "upsertComment" ELSE "updateComment"]
    /\ UpdateWebhookTimestamp(h)
    /\ UNCHANGED <<HdlUnchanged, post, sync, storeVars, ops>>

\* handleCommentCreate: the upsert of the comment row; it fails when the task
\* row it refers to is gone
HandleUpsertComment(h) ==
    /\ hdl[h].pc = "upsertComment"
    /\ \E storeError \in BOOLEAN :
         IF storeError \/ ~\E r \in tasks : r.id = The(hdl[h].existingTask).id
         THEN /\ comments' = comments
              /\ hdl' = [hdl EXCEPT ![h].pc = "failed"]
         ELSE /\ comments' = UpsertComment(comments, The(hdl[h].existingTask).id,
                                           The(hdl[h].comment))
              /\ hdl' = [hdl EXCEPT ![h].pc = "done"]
    /\ UpdateWebhookTimestamp(h)
    /\ UNCHANGED <<HdlUnchanged, post, sync, lists, tasks, webhooks, history, ops>>

\* handleCommentUpdate: the update of the rows that have the remote id
HandleUpdateComment(h) ==
    /\ hdl[h].pc = "updateComment"
    /\ \E storeError \in BOOLEAN :
         IF storeError
         THEN /\ comments' = comments
              /\ hdl' = [hdl EXCEPT ![h].pc = "failed"]
         ELSE /\ comments' = UpdateComment(comments, The(hdl[h].comment))
              /\ hdl' = [hdl EXCEPT ![h].pc = "done"]
    /\ UpdateWebhookTimestamp(h)
    /\ UNCHANGED <<HdlUnchanged, post, sync, lists, tasks, webhooks, history, ops>>

\* handleCommentDelete: the delete of the rows that have the remote id
HandleCommentDelete(h) ==
    /\ hdl[h].pc = "deleteComment"
    /\ \E storeError \in BOOLEAN :
         IF storeError
         THEN /\ comments' = comments
              /\ hdl' = [hdl EXCEPT ![h].pc = "failed"]
         ELSE /\ comments' = {r \in comments : r.clickup_id # CommentId(hdl[h].payload.event)}
              /\ hdl' = [hdl EXCEPT ![h].pc = "done"]
    /\ UpdateWebhookTimestamp(h)
    /\ UNCHANGED <<HdlUnchanged, post, sync, lists, tasks, webhooks, history, ops>>

HandleCommentStep(h) ==
    \/ HandleCommentSelectTask(h)
    \/ HandleGetComments(h)
    \/ HandleUpsertComment(h)
    \/ HandleUpdateComment(h)
    \/ HandleCommentDelete(h)

\* a comment is posted, edited or deleted at the remote service
RemotePostComment(c, t, text) ==
    /\ changes < MaxChanges
    /\ t \in DOMAIN remoteTasks
    /\ ~\E x \in remoteComments : x.id = c
    /\ remoteComments' = remoteComments \cup {[id |-> c, task |-> t, text |-> text]}
    /\ changes' = changes + 1
    /\ UNCHANGED <<limiterVars, callbackUrl, remoteTasks, remoteWebhooks, storeVars, sync,
                   hdl, ops, secret, post, folder, del, res, pager, retry, stamps>>

RemoteEditComment(c, text) ==
    /\ changes < MaxChanges
    /\ \E x \in remoteComments : x.id = c /\ x.text # text
    /\ remoteComments' = {IF x.id = c THEN [x EXCEPT !.text = text] ELSE x : x \in remoteComments}
    /\ changes' = changes + 1
    /\ UNCHANGED <<limiterVars, callbackUrl, remoteTasks, remoteWebhooks, storeVars, sync,
                   hdl, ops, secret, post, folder, del, res, pager, retry, stamps>>

RemoteDeleteComment(c) ==
    /\ changes < MaxChanges
    /\ \E x \in remoteComments : x.id = c
    /\ remoteComments' = {x \in remoteComments : x.id # c}
    /\ changes' = changes + 1
    /\ UNCHANGED <<limiterVars, callbackUrl, remoteTasks, remoteWebhooks, storeVars, sync,
                   hdl, ops, secret, post, folder, del, res, pager, retry, stamps>>

RemoteCommentChange ==
    \/ \E c \in CommentIds, t \in TaskIds, text \in Texts : RemotePostComment(c, t, text)
    \/ \E c \in CommentIds, text \in Texts : RemoteEditComment(c, text)
    \/ \E c \in CommentIds : RemoteDeleteComment(c)

HandleStep(h) ==
    \/ HandleGetTask(h)
    \/ HandleSelectTask(h)
    \/ HandleInsertHistory(h)
    \/ HandleUpsertTask(h)
    \/ HandleTaskDelete(h)

----------------------------------------------------------------------------
(* The webhook route: POST /api/webhooks/clickup *)

\* the request bodies: a text that is not JSON, the JSON texts null and {},
\* and the JSON texts of three task events
Bodies ==
    {"{", "null", "{}",
     "{event:{type:taskUpdated},task_id:A,list_id:L1}",
     "{event:{type:taskCreated},task_id:B,list_id:L1}",
     "{event:{type:taskDeleted},task_id:A,list_id:L1}"}

\* JSON.parse(body): the set holding the value, empty when SyntaxError is thrown
JSONParse(body) ==
    CASE body = "null" -> {NullPayload}
      [] body = "{}" -> {[event |-> NoEvent, task_id |-> NULL, list_id |-> NULL]}
      [] body = "{event:{type:taskUpdated},task_id:A,list_id:L1}" ->
            {[event |-> [type |-> "taskUpdated"], task_id |-> "A", list_id |-> ListId]}
      [] body = "{event:{type:taskCreated},task_id:B,list_id:L1}" ->
            {[event |-> [type |-> "taskCreated"], task_id |-> "B", list_id |-> ListId]}
      [] body = "{event:{type:taskDeleted},task_id:A,list_id:L1}" ->
            {[event |-> [type |-> "taskDeleted"], task_id |-> "A", list_id |-> ListId]}
      [] OTHER -> {}

\* the values of CLICKUP_WEBHOOK_SECRET: not set, set to the empty string, set
Secrets == {NULL, "", "k1"}

\* the keys a sender may sign with
Keys == {"k1", "k2"}

\* crypto.createHmac('sha256', secret).update(body).digest('hex'): the digest
\* is taken to be a different one for every pair of key and body
Hmac(key, body) == <<key, body>>

\* request.headers.get('x-signature') || '': no header or an empty one (<<>>),
\* or the digest of some body under some key
Signatures == {<<>>} \cup {Hmac(k, b) : k \in Keys, b \in Bodies}

\* the variant of the check that accepts every signature
VerifyAlways(body, signature) == TRUE

\* the variant of the check that compares the digest also without a secret
VerifyStrict(body, signature) == Hmac(secret, body) = signature

\* verifyWebhookSignature(body, signature)
VerifyWebhookSignature(body, signature) ==
    IF secret = NULL \/ secret = ""
    THEN TRUE
    ELSE Hmac(secret, body) = signature

\* the response of the route
Response(body, signature, status, verified, invoked) ==
    [body |-> body, signature |-> signature, status |-> status,
     verified |-> verified, invoked |-> invoked,
     replay |-> /\ invoked
                /\ post.invoked
                /\ post.body = body
                /\ \A h \in Handlers : hdl[h].pc = "done"]

\* the variant of the route that verifies the signature before it parses
PostVerifyFirst(h, body, signature) ==
    /\ ops < MaxOps
    /\ IF ~VerifyWebhookSignature(body, signature)
       THEN /\ post' = Response(body, signature, 401, FALSE, FALSE)
            /\ ops' = ops + 1
            /\ hdl' = hdl
            /\ stamps' = stamps
       ELSE IF JSONParse(body) = {}
       THEN /\ post' = Response(body, signature, 200, TRUE, FALSE)
            /\ ops' = ops + 1
            /\ hdl' = hdl
            /\ stamps' = stamps
       ELSE /\ Invoke(h, The(JSONParse(body)))
            /\ post' = Response(body, signature, 200, TRUE, TRUE)
    /\ UNCHANGED <<HdlUnchanged, sync, storeVars>>

\* the variant of the route that awaits the handler before it responds
PostAwaited(h, body, signature) ==
    /\ ops < MaxOps
    /\ JSONParse(body) # {}
    /\ VerifyWebhookSignature(body, signature)
    /\ Invoke(h, The(JSONParse(body)))
    /\ post' = Response(body, signature,
                        IF Running(Dispatch(The(JSONParse(body)))) THEN 0 ELSE 200,
                        TRUE, TRUE)
    /\ UNCHANGED <<HdlUnchanged, sync, storeVars>>

\* POST: the body is read and parsed, the signature is verified, the handler
\* is started and not awaited, and the response is returned. An error thrown
\* on the way (the body is not JSON) is acknowledged with status 200. The
\* replay field of post is an observer: the request before this one had the
\* same body and its handler has ended without an error.
Post(h, body, signature) ==
    /\ ops < MaxOps
    /\ IF JSONParse(body) = {}
       THEN /\ post' = Response(body, signature, 200, FALSE, FALSE)
            /\ ops' = ops + 1
            /\ hdl' = hdl
            /\ stamps' = stamps
       ELSE IF ~VerifyWebhookSignature(body, signature)
       THEN /\ post' = Response(body, signature, 401, FALSE, FALSE)
            /\ ops' = ops + 1
            /\ hdl' = hdl
            /\ stamps' = stamps
       ELSE /\ Invoke(h, The(JSONParse(body)))
            /\ post' = Response(body, signature, 200, TRUE, TRUE)
    /\ UNCHANGED <<HdlUnchanged, sync, storeVars>>

----------------------------------------------------------------------------
(* Folder-level sync: syncFolder, and the folder branch of the sync route *)

\* no folder-level sync has been started
NoFolder == [path |-> NULL, pc |-> "idle", run |-> <<>>, results |-> <<>>,
             response |-> [status |-> 0, success |-> FALSE, results |-> <<>>]]

\* The lists of the folder are numbered 1..FolderSize. folder.run[k] is the
\* call syncList makes for list k: "pending" before it is made, "running",
\* then "returned" or "thrown". folder.results is the array of the results
\* collected, each result standing for its list; folder.response is what the
\* caller of the folder sync gets, with status 0 while it has got nothing.
FolderUnchanged ==
    <<limiterVars, callbackUrl, remoteVars, storeVars, sync, hdl, ops, secret, post, runVars,
      stamps>>

\* syncFolder(folderUrl) is called: getFolderLists, then the first syncList of
\* the loop; an error of getFolderLists is thrown to the caller
SyncFolder ==
    /\ folder.pc = "idle"
    /\ \E apiError \in BOOLEAN :
         folder' = IF apiError
                   THEN [NoFolder EXCEPT !.path = "syncFolder", !.pc = "failed",
                                         !.response.status = 500]
                   ELSE [NoFolder EXCEPT !.path = "syncFolder", !.pc = "loop",
                            !.run = [k \in 1..FolderSize |->
                                       IF k = 1 THEN "running" ELSE "pending"]]
    /\ UNCHANGED FolderUnchanged

\* the loop of syncFolder: the syncList awaited returns and its result is
\* pushed, or it throws and the error is caught and logged; then the next
\* list is taken, or after the last one the results are returned
SyncFolderLoop ==
    /\ folder.pc = "loop"
    /\ \E k \in 1..FolderSize, ok \in BOOLEAN :
         /\ folder.run[k] = "running"
         /\ LET results == IF ok THEN Append(folder.results, k) ELSE folder.results
                run == [j \in 1..FolderSize |->
                          IF j = k THEN (IF ok THEN "returned" ELSE "thrown")
                          ELSE IF j = k + 1 THEN "running"
                          ELSE folder.run[j]]
            IN  folder' = [folder EXCEPT
                             !.run = run,
                             !.results = results,
                             !.pc = IF k = FolderSize THEN "done" ELSE "loop",
                             !.response = IF k = FolderSize
                                          THEN [status |-> 200, success |-> TRUE,
                                                results |-> results]
                                          ELSE @]
    /\ UNCHANGED FolderUnchanged

\* the sync route finds the lists of the folder: syncList is called for every
\* list at once and Promise.all of the calls is awaited; no list found is
\* answered with 404
RouteFolder ==
    /\ folder.pc = "idle"
    /\ \E found \in BOOLEAN :
         folder' = IF ~found
                   THEN [NoFolder EXCEPT !.path = "route", !.pc = "failed",
                                         !.response.status = 404]
                   ELSE [NoFolder EXCEPT !.path = "route", !.pc = "all",
                            !.run = [k \in 1..FolderSize |-> "running"]]
    /\ UNCHANGED FolderUnchanged

\* one syncList of the route settles. Promise.all rejects with the first
\* error, and the catch of the route answers 500; it fulfils when every call
\* has returned, with the results in the order of the lists. The calls still
\* running go on after a rejection.
RouteSettle(k, ok) ==
    /\ folder.path = "route"
    /\ folder.run # <<>>
    /\ folder.run[k] = "running"
    /\ LET run == [folder.run EXCEPT ![k] = IF ok THEN "returned" ELSE "thrown"]
       IN  folder' = [folder EXCEPT
                        !.run = run,
                        !.pc = IF ~ok /\ folder.pc = "all" THEN "failed"
                               ELSE IF \A j \in 1..FolderSize : run[j] = "returned" THEN "done"
                               ELSE @,
                        !.response =
                            IF ~ok /\ folder.pc = "all"
                            THEN [status |-> 500, success |-> FALSE, results |-> <<>>]
                            ELSE IF \A j \in 1..FolderSize : run[j] = "returned"
                            THEN [status |-> 200, success |-> TRUE,
                                  results |-> [j \in 1..FolderSize |-> j]]
                            ELSE @]
    /\ UNCHANGED FolderUnchanged

----------------------------------------------------------------------------
(* deleteList *)

\* deleteList has not been called
NoDelete == [pc |-> "idle", list |-> 0, webhooks |-> <<>>, k |-> 0, attempted |-> {}]

\* the rows a select returns, in the order of their ids
InOrder(ids) ==
    CHOOSE q \in [1..Cardinality(ids) -> ids] :
        \A i, j \in 1..Cardinality(ids) : i < j => q[i] < q[j]

DeleteUnchanged ==
    <<limiterVars, callbackUrl, remoteTasks, changes, sync, hdl, secret, post, folder,
      remoteComments, res, pager, retry>>

\* deleteList(listId) is called and the select of the list's registrations
\* returns: { data: webhooks }, null when the select fails; its error is not
\* read. With nothing to loop over the delete of the list row is next.
DeleteList(listId) ==
    /\ del.pc \in {"idle", "done", "failed"}
    /\ ops < MaxOps
    /\ ops' = ops + 1
    /\ \E storeError \in BOOLEAN :
         LET data == IF storeError THEN <<>>
                     ELSE InOrder({w.clickup_webhook_id : w \in {x \in webhooks : x.list_id = listId}})
         IN  del' = [NoDelete EXCEPT !.list = listId, !.webhooks = data, !.k = 1,
                                     !.pc = IF data = <<>> THEN "deleteRow" ELSE "deleteWebhooks"]
    /\ UNCHANGED <<DeleteUnchanged, remoteWebhooks, storeVars, stamps>>

\* one turn of the loop: clickupClient.deleteWebhook(id); its error is caught
\* and logged
DeleteRemoteWebhook ==
    /\ del.pc = "deleteWebhooks"
    /\ LET id == del.webhooks[del.k]
       IN  /\ \E apiError \in BOOLEAN :
                remoteWebhooks' = IF apiError THEN remoteWebhooks ELSE remoteWebhooks \ {id}
           /\ del' = [del EXCEPT !.attempted = @ \cup {id}, !.k = @ + 1,
                                 !.pc = IF del.k < Len(del.webhooks)
                                        THEN "deleteWebhooks" ELSE "deleteRow"]
    /\ UNCHANGED <<DeleteUnchanged, storeVars, stamps, ops>>

\* .from('lists_CAG_custom').delete().eq('id', listId): the rows that refer to
\* the list go with it (ON DELETE CASCADE: tasks and webhooks by list_id,
\* comments and history by task_id); an error is thrown on to the caller
DeleteListRow ==
    /\ del.pc = "deleteRow"
    /\ \E storeError \in BOOLEAN :
         IF storeError
         THEN /\ del' = [del EXCEPT !.pc = "failed"]
              /\ UNCHANGED <<storeVars, stamps>>
         ELSE LET gone == {t.id : t \in {x \in tasks : x.list_id = del.list}}
              IN  /\ lists' = {l \in lists : l.id # del.list}
                  /\ tasks' = {t \in tasks : t.list_id # del.list}
                  /\ webhooks' = {w \in webhooks : w.list_id # del.list}
                  /\ comments' = {c \in comments : c.task_id \notin gone}
                  /\ history' = SelectSeq(history, LAMBDA row : row.task_id \notin gone)
                  /\ stamps' = [stamps EXCEPT
                        !.last_synced = Without(@, {del.list}),
                        !.last_event_at = Without(@, {w.id : w \in webhooks \ webhooks'})]
                  /\ del' = [del EXCEPT !.pc = "done"]
    /\ UNCHANGED <<DeleteUnchanged, remoteWebhooks, ops>>

DeleteStep == DeleteRemoteWebhook \/ DeleteListRow

----------------------------------------------------------------------------
(* The resolution of a list URL *)

\* A view token or a list id is the sequence of the parts that split('-')
\* yields; join('-') of a slice of the parts is that slice.
MaxParts == 3
TokenParts == {"6", "L1", "1"}
Tokens == UNION {[1..n -> TokenParts] : n \in 1..MaxParts}

\* the lists that exist at the remote service
RemoteLists == {<<ListId>>}

\* what GET /view/{viewId} can make getListIdFromView return: null (no view,
\* no parent, or an error, which it catches), the list, or another id
ViewResults == {<<>>, <<ListId>>, <<"6">>}

\* syncList has not been called with a URL to resolve
NoResolve == [pc |-> "idle", isView |-> FALSE, parts |-> <<>>, view |-> <<>>,
              candidates |-> <<>>, tried |-> <<>>, listId |-> <<>>]

\* parts.slice(1, -1) and parts.slice(1), pushed when parts.length >= 3
Heuristics(parts) ==
    IF Len(parts) >= 3
    THEN << SubSeq(parts, 2, Len(parts) - 1), SubSeq(parts, 2, Len(parts)) >>
    ELSE << >>

\* candidates.unshift(listIdFromView) when the lookup yields an id
Unshift(candidates, listIdFromView) ==
    IF listIdFromView # <<>> THEN <<listIdFromView>> \o candidates ELSE candidates

\* the candidate loop goes on after a success: the last success wins
TryEveryCandidate(r, ok) ==
    [r EXCEPT !.tried = Append(@, ok),
              !.listId = IF ok THEN r.candidates[Len(r.tried) + 1] ELSE @,
              !.pc = IF Len(r.tried) + 1 < Len(r.candidates) THEN "try"
                     ELSE IF ok \/ r.listId # <<>> THEN "found" ELSE "thrown"]

\* one turn of the candidate loop: getList(candidate) succeeds (listId is the
\* candidate, found, break) or fails (continue); after the loop, not found
\* throws
TryCandidate(r, ok) ==
    [r EXCEPT !.tried = Append(@, ok),
              !.listId = IF ok THEN r.candidates[Len(r.tried) + 1] ELSE @,
              !.pc = IF ok THEN "found"
                     ELSE IF Len(r.tried) + 1 < Len(r.candidates) THEN "try"
                     ELSE "thrown"]

\* a resolution error that syncList swallows, going on with the view token
ResolutionIgnored(s) == [sync EXCEPT ![s].pc = "resolve"]

\* throw new Error("Could not determine list ID from view URL ..."): the catch
\* block of syncList logs it and throws it again
ResolutionThrown(s) == Thrown(s)

ResolveUnchanged ==
    <<limiterVars, callbackUrl, remoteVars, storeVars, hdl, secret, post, folder,
      remoteComments, del, pager, retry, stamps>>

\* syncList(listUrl) is called: extractListId, and for a view URL the split of
\* the token and the heuristic candidates, up to the await of the view lookup
ResolveStart(s, isView, parts) ==
    /\ ~Running(sync[s].pc)
    /\ \A s2 \in Syncs : Running(sync[s2].pc) \/ SlotOrder[s] <= SlotOrder[s2]
    /\ ops < MaxOps
    /\ ops' = ops + 1
    /\ sync' = [sync EXCEPT ![s] = [SyncIdle EXCEPT !.pc = "resolve"]]
    /\ res' = [NoResolve EXCEPT !.isView = isView, !.parts = parts,
                                !.pc = IF isView THEN "view" ELSE "found",
                                !.candidates = IF isView THEN Heuristics(parts) ELSE <<>>,
                                !.listId = IF isView THEN <<>> ELSE parts]
    /\ UNCHANGED ResolveUnchanged

\* getListIdFromView(extractedId) returns; with no candidate at all the loop
\* is empty and the error is thrown at once
ResolveView(s) ==
    /\ sync[s].pc = "resolve"
    /\ res.pc = "view"
    /\ \E listIdFromView \in ViewResults :
         LET candidates == Unshift(res.candidates, listIdFromView)
         IN  /\ res' = [res EXCEPT !.view = listIdFromView,
                                   !.candidates = candidates,
                                   !.pc = IF candidates = <<>> THEN "thrown" ELSE "try"]
             /\ sync' = IF candidates = <<>> THEN ResolutionThrown(s) ELSE sync
    /\ UNCHANGED <<ResolveUnchanged, ops>>

\* getList(candidate) returns or throws: a candidate that is no remote list
\* fails, and a request for a remote list can fail too
ResolveTry(s) ==
    /\ sync[s].pc = "resolve"
    /\ res.pc = "try"
    /\ \E ok \in BOOLEAN :
         /\ ok => res.candidates[Len(res.tried) + 1] \in RemoteLists
         /\ res' = TryCandidate(res, ok)
         /\ sync' = IF res'.pc = "thrown" THEN ResolutionThrown(s) ELSE sync
    /\ UNCHANGED <<ResolveUnchanged, ops>>

\* after the resolution: getList(listId), getSpace and getWorkspaces
SyncGetList(s) ==
    /\ sync[s].pc = "resolve"
    /\ res.pc = "found"
    /\ \E ok \in BOOLEAN :
         /\ ok => res.listId \in RemoteLists
         /\ sync' = IF ok THEN [sync EXCEPT ![s].pc = "upsertList"] ELSE Thrown(s)
    /\ res' = [res EXCEPT !.pc = "fetched"]
    /\ UNCHANGED <<ResolveUnchanged, ops>>

\* the answer of the add-list route to the caller: syncList is awaited, its
\* error is caught and answered with status 500 and the error's message
AddListResponse(s) ==
    [status |-> IF sync[s].pc = "failed" THEN 500
                ELSE IF sync[s].pc = "done" THEN 200 ELSE 0,
     success |-> sync[s].pc = "done"]

----------------------------------------------------------------------------
(* getTasks *)

\* the page size of the remote service, 100, scaled down, and the largest
\* remote collection
PageSize == 2
MaxRemote == 9

\* getTasks has not been called
NoPager == [pc |-> "idle", remote |-> <<>>, page |-> 0, allTasks |-> <<>>, requested |-> <<>>]

\* GET /list/{listId}/task?...&page={page}: the rows of that page
Page(remote, page) ==
    SubSeq(remote, page * PageSize + 1,
           IF (page + 1) * PageSize < Len(remote) THEN (page + 1) * PageSize ELSE Len(remote))

\* the loop stops after the first page
HasMoreNever(rows) == FALSE

\* hasMore after a response: tasks.length > 0 and not tasks.length < 100
HasMore(rows) == Len(rows) > 0 /\ ~(Len(rows) < PageSize)

PagerUnchanged ==
    <<limiterVars, callbackUrl, remoteVars, storeVars, sync, hdl, secret, post, folder,
      remoteComments, del, res, retry, stamps>>

\* getTasks(listId) is called for a list of n tasks: allTasks = [], page = 0
GetTasksCall(n) ==
    /\ pager.pc \in {"idle", "returned", "thrown"}
    /\ ops < MaxOps
    /\ ops' = ops + 1
    /\ pager' = [NoPager EXCEPT !.pc = "fetch", !.remote = [i \in 1..n |-> i]]
    /\ UNCHANGED PagerUnchanged

\* one turn of the loop: the page is fetched (an error of the call is thrown
\* on to the caller), its rows are pushed, and the loop goes on with the next
\* page or getTasks returns { tasks: allTasks }
GetTasksPage ==
    /\ pager.pc = "fetch"
    /\ \E apiError \in BOOLEAN :
         IF apiError
         THEN pager' = [pager EXCEPT !.pc = "thrown", !.requested = Append(@, pager.page)]
         ELSE LET response == Page(pager.remote, pager.page)
              IN  pager' = [pager EXCEPT
                     !.requested = Append(@, pager.page),
                     !.allTasks = @ \o response,
                     !.page = IF HasMore(response) THEN @ + 1 ELSE @,
                     !.pc = IF HasMore(response) THEN "fetch" ELSE "returned"]
    /\ UNCHANGED <<PagerUnchanged, ops>>


----------------------------------------------------------------------------
(* Initial states and specifications *)

\* no POST has been received
NoPost == [body |-> "", signature |-> <<>>, status |-> 0, verified |-> FALSE,
           invoked |-> FALSE, replay |-> FALSE]

InitLimiter ==
    /\ now = 0
    /\ requests = [l \in Limiters |-> <<>>]
    /\ calls = <<>>
    /\ waiter = [w \in Waiters |-> "idle"]
    /\ fetcher = [f \in Fetchers |-> [pc |-> "idle", slots |-> {}]]
    /\ httpLog = <<>>

\* the store: empty, or as an earlier syncList of the list has left it when
\* it registered no webhook (no callback URL, or createWebhook failed)
InitStore(synced) ==
    /\ lists = IF synced THEN UpsertList({}, ListId) ELSE {}
    /\ tasks = IF synced
               THEN UpsertTasks({}, [k \in 1..Len(GetTasks) |-> TaskRow(1, GetTasks[k])])
               ELSE {}
    /\ comments = {}
    /\ webhooks = {}
    /\ history = <<>>
    /\ stamps = [last_synced |-> [id \in {l.id : l \in lists} |-> 0],
                 last_event_at |-> <<>>]

\* no run of syncList or handleWebhookEvent has been made
InitEngine ==
    /\ remoteWebhooks = {}
    /\ sync = [s \in Syncs |-> SyncIdle]
    /\ hdl = [h \in Handlers |-> HdlIdle]
    /\ ops = 0
    /\ changes = 0
    /\ post = NoPost
    /\ folder = NoFolder

\* nothing but syncList, the handler and the routes above has run, and the
\* remote tasks have no comments
\* ---------------------------------------------------------------------
\* retryOpenAICall (query-generator.ts, query-executor.ts)
\* ---------------------------------------------------------------------

MaxRetriesTried == 3

\* baseDelay: number = 1000
BaseDelay == 1000

\* what fn() settles with: a response, or an error with its status, whether
\* its message includes 'Rate limit', and the seconds of 'try again in Ns' in
\* the message (0: the message has no such text)
FnResponse == [status |-> 200, rateLimit |-> FALSE, tryAgain |-> 0]

FnErrors ==
    {[status |-> 429, rateLimit |-> FALSE, tryAgain |-> 0],
     [status |-> 429, rateLimit |-> TRUE, tryAgain |-> 2],
     [status |-> 0, rateLimit |-> TRUE, tryAgain |-> 0],
     [status |-> 500, rateLimit |-> FALSE, tryAgain |-> 0]}

\* error?.status === 429 || error?.message?.includes('Rate limit')
IsRateLimit(error) == error.status = 429 \/ error.rateLimit

RECURSIVE Pow2(_)
Pow2(n) == IF n = 0 THEN 1 ELSE 2 * Pow2(n - 1)

\* Math.ceil(parseFloat(retryAfterMatch[1]) * 1000) + 500, or
\* baseDelay * Math.pow(2, attempt)
RetryAfter(error, attempt) ==
    IF error.tryAgain # 0 THEN error.tryAgain * 1000 + 500 ELSE BaseDelay * Pow2(attempt)

\* a loop that makes one more round
LoopContinuesInclusive(attempt, maxRetries) == attempt <= maxRetries

\* attempt < maxRetries
LoopContinues(attempt, maxRetries) == attempt < maxRetries

\* log: observer, what each call of fn settled with, in order;
\* lastError, thrown: no error ({}) or one, with the number n of its call
NoRetry == [pc |-> "idle", maxRetries |-> 0, attempt |-> 0, lastError |-> {},
            retryAfter |-> 0, log |-> <<>>, result |-> 0, thrown |-> {}]

RetryUnchanged ==
    <<limiterVars, callbackUrl, remoteVars, storeVars, sync, hdl, ops, secret, post, folder,
      remoteComments, del, res, pager, stamps>>

\* retryOpenAICall(fn, maxRetries) is called: let lastError; attempt = 0 and
\* the first test of the loop
RetryOpenAICall(maxRetries) ==
    /\ retry.pc \in {"idle", "returned", "thrown"}
    /\ retry' = [NoRetry EXCEPT !.maxRetries = maxRetries,
                                !.pc = IF LoopContinues(0, maxRetries) THEN "call" ELSE "thrown"]
    /\ UNCHANGED RetryUnchanged

\* return await fn(), and the catch block up to the setTimeout
RetryAttempt ==
    /\ retry.pc = "call"
    /\ \E outcome \in {FnResponse} \cup FnErrors :
         LET n == Len(retry.log) + 1
             error == [n |-> n] @@ outcome
         IN  retry' =
               IF outcome = FnResponse
               THEN [retry EXCEPT !.log = Append(@, outcome), !.pc = "returned", !.result = n]
               ELSE IF IsRateLimit(outcome)
               THEN [retry EXCEPT !.log = Append(@, outcome), !.pc = "sleep",
                                  !.lastError = {error},
                                  !.retryAfter = RetryAfter(outcome, retry.attempt)]
               ELSE [retry EXCEPT !.log = Append(@, outcome), !.pc = "thrown",
                                  !.lastError = {error}, !.thrown = {error}]
    /\ UNCHANGED RetryUnchanged

\* the timer fires: continue, attempt++ and the test of the loop; after the
\* loop, throw lastError
RetryContinue ==
    /\ retry.pc = "sleep"
    /\ retry' = IF LoopContinues(retry.attempt + 1, retry.maxRetries)
                THEN [retry EXCEPT !.attempt = @ + 1, !.pc = "call"]
                ELSE [retry EXCEPT !.attempt = @ + 1, !.pc = "thrown",
                                   !.thrown = retry.lastError]
    /\ UNCHANGED RetryUnchanged

InitRuns ==
    /\ remoteComments = {}
    /\ del = NoDelete
    /\ res = NoResolve
    /\ pager = NoPager
    /\ retry = NoRetry

\* the remote list is in any state
Init ==
    /\ InitLimiter
    /\ InitEngine
    /\ callbackUrl \in {NULL, "https://app.example.com/api/webhooks/clickup"}
    /\ remoteTasks \in UNION {[ids -> InitialTask] : ids \in SUBSET TaskIds}
    /\ \E synced \in BOOLEAN : InitStore(synced)
    /\ secret = NULL
    /\ InitRuns

RemoteChange ==
    \/ \E t \in TaskIds, due \in DueMs \cup {NULL} : RemoteCreateTask(t, due)
    \/ \E t \in TaskIds, due \in DueMs \cup {NULL} : RemoteSetDueDate(t, due)
    \/ \E t \in TaskIds : RemoteCloseTask(t)
    \/ \E t \in TaskIds : RemoteDeleteTask(t)

\* syncs and webhook events under every interleaving of their steps
Next ==
    \/ \E s \in Syncs : SyncStart(s)
    \/ \E s \in Syncs : SyncStep(s)
    \/ \E h \in Handlers, payload \in Payloads : HandleWebhookEvent(h, payload)
    \/ \E h \in Handlers : HandleStep(h)
    \/ RemoteChange

Spec == Init /\ [][Next]_vars

\* one operation at a time: a sync or an event is handled to its end before
\* the next one starts, and the remote list changes between operations
Busy == (\E s \in Syncs : Running(sync[s].pc)) \/ (\E h \in Handlers : Running(hdl[h].pc))

NextSeq ==
    \/ \E s \in Syncs : ~Busy /\ SyncStart(s)
    \/ \E s \in Syncs : SyncStep(s)
    \/ \E h \in Handlers, payload \in Payloads : ~Busy /\ HandleWebhookEvent(h, payload)
    \/ \E h \in Handlers : HandleStep(h)
    \/ ~Busy /\ RemoteChange

SpecSeq == Init /\ [][NextSeq]_vars

----------------------------------------------------------------------------
\* the limiter alone: nothing is configured, the remote list is empty
InitRL ==
    /\ InitLimiter
    /\ InitEngine
    /\ callbackUrl = NULL
    /\ remoteTasks = <<>>
    /\ InitStore(FALSE)
    /\ secret = NULL
    /\ InitRuns

NextRL ==
    \/ \E w \in Waiters : CallCheckLimit(w)
    \/ \E w \in Waiters : WaitForSlot(w)
    \/ Tick

SpecRL == InitRL /\ [][NextRL]_vars

NextClient ==
    \/ \E f \in Fetchers : Fetch(f)
    \/ Tick

SpecClient == InitRL /\ [][NextClient]_vars

\* the webhook route and the handler it starts, with the remote list fixed
InitRoute ==
    /\ InitLimiter
    /\ InitEngine
    /\ callbackUrl = NULL
    /\ remoteTasks \in UNION {[ids -> InitialTask] : ids \in SUBSET TaskIds}
    /\ \E synced \in BOOLEAN : InitStore(synced)
    /\ secret \in Secrets
    /\ InitRuns

NextRoute ==
    \/ \E h \in Handlers, body \in Bodies, signature \in Signatures : Post(h, body, signature)
    \/ \E h \in Handlers : HandleStep(h)

SpecRoute == InitRoute /\ [][NextRoute]_vars

\* runs of syncList made one after the other, with nothing else running
NextSync ==
    \/ \E s \in Syncs : ~Busy /\ SyncStart(s)
    \/ \E s \in Syncs : SyncStep(s)

SpecSync == Init /\ [][NextSync]_vars

\* one folder-level sync, by syncFolder or by the sync route
NextFolder ==
    \/ SyncFolder
    \/ SyncFolderLoop
    \/ RouteFolder
    \/ \E k \in 1..FolderSize, ok \in BOOLEAN : RouteSettle(k, ok)

SpecFolder == InitRL /\ [][NextFolder]_vars

----------------------------------------------------------------------------
(* waitForSlot over unbounded time *)

\* The limiter looks only at the difference between Date.now() and the stored
\* timestamps, so here the passing of 100 ms leaves now alone and moves every
\* stored timestamp back by one; a timestamp that has left the window stays
\* at the edge of it, where the filter drops it like any older one.
\* syncList is called with URLs of both kinds, one run after the other
NextResolve ==
    \/ /\ ~Busy
       /\ \E s \in Syncs, isView \in BOOLEAN, parts \in Tokens : ResolveStart(s, isView, parts)
    \/ \E s \in Syncs : ResolveView(s)
    \/ \E s \in Syncs : ResolveTry(s)
    \/ \E s \in Syncs : SyncGetList(s)
    \/ \E s \in Syncs : SyncStep(s)

\* one remote task, the list synced before or not
InitResolve ==
    /\ InitLimiter
    /\ InitEngine
    /\ callbackUrl = "https://app.example.com/api/webhooks/clickup"
    /\ remoteTasks \in [{"A"} -> InitialTask]
    /\ \E synced \in BOOLEAN : InitStore(synced)
    /\ secret = NULL
    /\ InitRuns

SpecResolve == InitResolve /\ [][NextResolve]_vars

\* the store after a sync of the list that registered its webhook: the list
\* row, the row of every remote task and the registration row; then a comment
\* event may have stored the comment
StoredComment == [id |-> 1, task_id |-> 1, clickup_id |-> "c1", text |-> "x"]

InitSynced ==
    /\ lists = UpsertList({}, ListId)
    /\ tasks = UpsertTasks({}, [k \in 1..Len(GetTasks) |-> TaskRow(1, GetTasks[k])])
    /\ webhooks = {[id |-> 1, list_id |-> 1, clickup_webhook_id |-> 1, is_active |-> TRUE]}
    /\ comments \in {{}, {StoredComment}}
    /\ history = <<>>
    /\ stamps = [last_synced |-> [id \in {1} |-> 0], last_event_at |-> <<>>]
    /\ remoteWebhooks = {1}

\* task A at the remote service, with a comment or without; the list synced
\* and registered, or not stored at all
InitEvents ==
    /\ InitLimiter
    /\ sync = [s \in Syncs |-> SyncIdle]
    /\ hdl = [h \in Handlers |-> HdlIdle]
    /\ ops = 0 /\ changes = 0 /\ post = NoPost /\ folder = NoFolder
    /\ del = NoDelete /\ res = NoResolve /\ pager = NoPager /\ retry = NoRetry
    /\ secret = NULL
    /\ callbackUrl = "https://app.example.com/api/webhooks/clickup"
    /\ remoteTasks \in [{"A"} -> InitialTask]
    /\ remoteComments \in {{}, {[id |-> "c1", task |-> "A", text |-> "y"]}}
    /\ \/ InitSynced
       \/ InitStore(FALSE) /\ remoteWebhooks = {}

\* the events of every type, one handled to its end before the next, while
\* the comments change at the remote service and time passes
MaxEventTime == 2
NextEvents ==
    \/ \E h \in Handlers, payload \in {p \in Payloads : p.task_id # "B"} \cup CommentPayloads :
         ~Busy /\ HandleWebhookEvent(h, payload)
    \/ \E h \in Handlers : HandleStep(h)
    \/ \E h \in Handlers : HandleCommentStep(h)
    \/ ~Busy /\ RemoteCommentChange
    \/ ~Busy /\ now < MaxEventTime /\ Tick

SpecEvents == InitEvents /\ [][NextEvents]_vars

\* deleteList is running
Deleting == del.pc \in {"deleteWebhooks", "deleteRow"}

\* the list is synced and deleted, one operation after the other
NextDelete ==
    \/ \E s \in Syncs : ~Busy /\ ~Deleting /\ SyncStart(s)
    \/ \E s \in Syncs : SyncStep(s)
    \/ \E l \in lists : ~Busy /\ ~Deleting /\ DeleteList(l.id)
    \/ DeleteStep

SpecDelete == InitEvents /\ [][NextDelete]_vars

\* getTasks is called for remote collections of every size up to MaxRemote;
\* a request that was sent is answered or fails
NextPages ==
    \/ \E n \in 0..MaxRemote : GetTasksCall(n)
    \/ GetTasksPage

SpecPages == InitRL /\ [][NextPages]_vars /\ WF_vars(GetTasksPage)

\* calls and resets on two keys of one limiter while time passes
NextBuckets ==
    \/ \E key \in Keys2, rnd \in BOOLEAN : CheckLimitOn(key, rnd)
    \/ \E key \in Keys2 : Reset(key)
    \/ Tick

SpecBuckets == InitRL /\ [][NextBuckets]_vars

\* syncs, deletions and the events of tasks and comments under every
\* interleaving of their steps
NextAll ==
    \/ \E s \in Syncs : SyncStart(s)
    \/ \E s \in Syncs : SyncStep(s)
    \/ \E l \in lists : ~Deleting /\ DeleteList(l.id)
    \/ DeleteStep
    \/ \E h \in Handlers, payload \in {p \in Payloads : p.task_id # "B"} \cup CommentPayloads :
         HandleWebhookEvent(h, payload)
    \/ \E h \in Handlers : HandleStep(h)
    \/ \E h \in Handlers : HandleCommentStep(h)

SpecAll == InitEvents /\ [][NextAll]_vars

\* task events for task A, with the list of the payload stored (L1) or not
\* (L2: the task was moved to a list that was never synced), and due-date
\* changes at the remote service between the events
UnscopedPayloads ==
    {[event |-> [type |-> e], task_id |-> "A", list_id |-> "L2"] :
        e \in {"taskCreated", "taskUpdated"}}

NextHistory ==
    \/ \E h \in Handlers, payload \in {p \in Payloads : p.task_id = "A"} \cup UnscopedPayloads :
         HandleWebhookEvent(h, payload)
    \/ \E h \in Handlers : HandleStep(h)
    \/ \E due \in DueMs \cup {NULL} : ~Busy /\ RemoteSetDueDate("A", due)

SpecHistory == InitEvents /\ [][NextHistory]_vars

\* calls of retryOpenAICall with maxRetries from 0 up, fn settling with a
\* response or with any of the errors
NextRetry ==
    \/ \E maxRetries \in 0..MaxRetriesTried : RetryOpenAICall(maxRetries)
    \/ RetryAttempt
    \/ RetryContinue

SpecRetry == InitRL /\ [][NextRetry]_vars

Aged(log) ==
    [k \in DOMAIN log |->
        IF log[k] - 1 < now - WindowMs THEN now - WindowMs ELSE log[k] - 1]

\* 100 ms pass
Elapse ==
    /\ requests' = [l \in Limiters |->
                      [key \in DOMAIN requests[l] |-> Aged(requests[l][key])]]
    /\ waiter' = [w \in Waiters |-> Woken(waiter[w])]
    /\ UNCHANGED <<now, calls, fetcher, httpLog, engineVars>>

\* one turn of the loop of waitForSlot: checkLimit(key), then the return or
\* the setTimeout of 100 ms
Attempt(w) ==
    \E rnd \in BOOLEAN :
      LET r == CheckLimit(requests[RL], BucketKey(RL), now, rnd)
      IN  /\ requests' = [requests EXCEPT ![RL] = r.requests]
          /\ waiter' = [waiter EXCEPT ![w] = IF r.ok THEN "idle" ELSE "sleep"]
          /\ UNCHANGED <<now, calls, fetcher, httpLog, engineVars>>

\* a caller calls waitForSlot(key)
Call(w) == waiter[w] = "idle" /\ Attempt(w)

\* the timer of a blocked caller has fired: it checks again
Poll(w) == waiter[w] = "ready" /\ Attempt(w)

NextLive ==
    \/ \E w \in Waiters : Call(w)
    \/ \E w \in Waiters : Poll(w)
    \/ Elapse

\* time advances, and a caller whose timer has fired runs
SpecLive ==
    /\ InitRL
    /\ [][NextLive]_vars
    /\ WF_vars(Elapse)
    /\ \A w \in Waiters : WF_vars(Poll(w))

----------------------------------------------------------------------------
(* Properties of the rate limiter and of the client *)

\* the starts of the windows that can hold a call
WindowStarts == (0 - WindowMs)..MaxTime

\* the calls of `log`, by position, that fall in [a, a + windowMs)
InWindow(log, a) ==
    {i \in 1..Len(log) : a <= log[i].t /\ log[i].t < a + WindowMs}

\* C2: on a fresh bucket, maxRequests consecutive checkLimit calls made within
\* less than windowMs all return true, the call after them made within the
\* same window returns false, and the next call, made once windowMs has
\* elapsed since the earliest admitted call, returns true again.
C2_RateLimiterBound ==
    LET n == Len(calls)
        burst == n > MaxRequests /\ calls[MaxRequests + 1].t - calls[1].t < WindowMs
    IN  /\ \A i \in 1..n :
              (i <= MaxRequests /\ calls[i].t - calls[1].t < WindowMs) => calls[i].ok
        /\ burst => ~calls[MaxRequests + 1].ok
        /\ (burst /\ n > MaxRequests + 1
              /\ calls[MaxRequests + 2].t >= calls[1].t + WindowMs)
              => calls[MaxRequests + 2].ok

\* the burst was denied its last call, and a call made exactly windowMs after
\* the first one has been admitted
C2_Witness ==
    /\ Len(calls) > MaxRequests + 1
    /\ ~calls[MaxRequests + 1].ok
    /\ calls[MaxRequests + 2].t = calls[1].t + WindowMs
    /\ calls[MaxRequests + 2].ok

\* C3: under every interleaving of checkLimit and waitForSlot callers on one
\* bucket, no half-open interval of length windowMs holds more than
\* maxRequests admissions, and the bucket's stored log is exactly the
\* admissions that were in the window at the last call: none lost, none
\* counted twice.
C3_WindowNeverExceeded ==
    LET admitted == SelectSeq(calls, LAMBDA c : c.ok)
        times == [i \in 1..Len(admitted) |-> admitted[i].t]
        last == IF calls = <<>> THEN 0 ELSE calls[Len(calls)].t
    IN  /\ \A a \in WindowStarts :
              Cardinality(InWindow(admitted, a)) <= MaxRequests
        /\ Get(requests[RL], BucketKey(RL))
              = SelectSeq(times, LAMBDA ts : ts > last - WindowMs)

\* two callers are blocked in waitForSlot on a full bucket at a time where an
\* earlier admission has already left the window
C3_Witness ==
    /\ Cardinality({w \in Waiters : waiter[w] = "ready"}) >= 2
    /\ Len(SelectSeq(calls, LAMBDA c : c.ok)) > MaxRequests
    /\ Len(Get(requests[RL], BucketKey(RL))) = MaxRequests

\* C4: every HTTP request is sent after waitForSlot has returned on both
\* buckets, and no half-open interval of length windowMs holds more than
\* maxRequests HTTP requests, whatever the number of concurrent callers.
C4_QuotaRespected ==
    /\ \A i \in 1..Len(httpLog) :
          httpLog[i].slots = {"clickup-api", "clickup-api-minute"}
    /\ \A a \in WindowStarts : Cardinality(InWindow(httpLog, a)) <= MaxRequests

\* more requests than one window allows have been sent, while a caller waits
C4_Witness ==
    /\ Len(httpLog) > MaxRequests
    /\ \E f \in Fetchers : fetcher[f].pc \in {"sleep1", "ready1"}

----------------------------------------------------------------------------
(* Properties of the full sync and of the webhook processor *)

\* the remote ids of the tasks stored for a list
StoredIds(list_id) == {r.clickup_task_id : r \in {x \in tasks : x.list_id = list_id}}

\* the remote ids of the tasks that the fetch of a run returned
FetchedIds(s) == {sync[s].tasksData[k].id : k \in 1..Len(sync[s].tasksData)}

\* the run has fetched the tasks and upserted every batch without an error
Upserted(s) == sync[s].pc \in {"registerWebhook", "createWebhook", "insertWebhook"}

\* the stored form of the due date of a fetched task
StoredDueDate(task) ==
    IF task.due_date = NULL THEN NULL ELSE Timestamptz(ParseIntToISOString(task.due_date))

\* C1: once a run of syncList has fetched and upserted the tasks of a list,
\* the remote ids stored for the list are exactly the ids its fetch returned:
\* a task stored before and absent from the fetch is deleted, with its
\* comments.
C1_StaleTasksDeleted ==
    \A s \in Syncs :
        Upserted(s) =>
            /\ StoredIds(sync[s].list) = FetchedIds(s)
            /\ \A c \in comments : \E r \in tasks : r.id = c.task_id

\* C5: when the same task payload has been applied once by the batch upsert
\* of syncList and once by a taskUpdated event, and nothing else has run, the
\* store holds exactly one row for the remote id, with the values of the
\* payload.
C5_IdempotentUpsert ==
    \A s \in Syncs, h \in Handlers :
        ( /\ ops = 2
          /\ sync[s].pc = "done"
          /\ hdl[h].pc = "done"
          /\ hdl[h].payload.event.type = "taskUpdated"
          /\ hdl[h].taskData # {}
          /\ \E k \in 1..Len(sync[s].tasksData) : sync[s].tasksData[k] = The(hdl[h].taskData) )
        => LET task == The(hdl[h].taskData)
               rows == {r \in tasks : r.clickup_task_id = task.id}
           IN  /\ Cardinality(rows) = 1
               /\ \A r \in rows : /\ r.list_id = sync[s].list
                                  /\ r.due_date = StoredDueDate(task)
                                  /\ r.status_type = task.status_type

\* a sync has stored a task that has a due date, and a taskUpdated event that
\* carries the same data has been handled to its end
C5_Witness ==
    \E s \in Syncs, h \in Handlers :
        /\ ops = 2
        /\ sync[s].pc = "done"
        /\ hdl[h].pc = "done"
        /\ hdl[h].payload.event.type = "taskUpdated"
        /\ hdl[h].taskData # {}
        /\ The(hdl[h].taskData).due_date # NULL
        /\ \E k \in 1..Len(sync[s].tasksData) : sync[s].tasksData[k] = The(hdl[h].taskData)
        /\ Cardinality({r \in tasks : r.clickup_task_id = hdl[h].payload.task_id}) = 1

C7_AtMostOneActiveWebhook ==
    \A l \in lists : Cardinality(ActiveWebhooks(l.id)) <= 1

\* C8: a task that is deleted remotely, and that a taskDeleted event has
\* removed from the store while a run of syncList was between its fetch and
\* its upserts, is not created again by an upsert of that run.
C8_DeletedTaskNotRecreated ==
    [][\A s \in Syncs, t \in TaskIds :
          ( /\ sync[s].pc = "upsertTasks"
            /\ sync'[s].i > sync[s].i
            /\ t \in sync[s].deleted
            /\ t \notin DOMAIN remoteTasks
            /\ t \notin StoredIds(sync[s].list) )
          => t \notin {r.clickup_task_id : r \in tasks'}]_vars

\* C9: once a run of syncList has fetched and upserted the tasks, every task
\* of the remote list, closed or open, is stored with its current status.
C9_ClosedTasksStored ==
    \A s \in Syncs :
        Upserted(s) =>
            \A t \in DOMAIN remoteTasks :
                \E r \in tasks : /\ r.clickup_task_id = t
                                 /\ r.list_id = sync[s].list
                                 /\ r.status_type = remoteTasks[t].status_type

\* C10: the step that ends the handling of a taskUpdated event for a stored
\* task whose remote due date differs from the stored one leaves the row
\* {old, new} as the last row of the history and the new due date in the
\* stored task.
C10_DueDateChangeRecorded ==
    [][\A h \in Handlers :
          ( /\ hdl[h].pc = "upsertTask"
            /\ hdl'[h].pc = "done"
            /\ hdl[h].payload.event.type = "taskUpdated"
            /\ hdl[h].existingTask # {}
            /\ ~hdl[h].historyError
            /\ The(hdl[h].existingTask).due_date # Timestamptz(hdl[h].newDueDate) )
          => /\ history' # <<>>
             /\ history'[Len(history')] =
                    [task_id |-> The(hdl[h].existingTask).id,
                     clickup_task_id |-> hdl[h].payload.task_id,
                     old_due_date |-> The(hdl[h].existingTask).due_date,
                     new_due_date |-> Timestamptz(hdl[h].newDueDate)]
             /\ \A r \in tasks' :
                    r.clickup_task_id = hdl[h].payload.task_id
                       => r.due_date = Timestamptz(hdl[h].newDueDate)]_vars

----------------------------------------------------------------------------
(* The webhook route and the outermost boundary of the handler *)

\* a secret is configured
Configured == secret # NULL /\ secret # ""

\* C11: handling the same webhook event a second time, with no remote change
\* in between, leaves the task, comment and due-date history rows as the
\* first handling left them.
C11_RedundantDeliveryChangesNothing ==
    [][(post.replay /\ \E h \in Handlers : Running(hdl[h].pc))
          => UNCHANGED <<tasks, comments, history>>]_vars

\* C12: handleWebhookEvent never throws or rejects: whatever the payload and
\* whatever fails in the remote API or in the store, a run that has ended has
\* returned a result with success = true.
C12_HandlerNeverThrows ==
    \A h \in Handlers :
        (hdl[h].pc # "idle" /\ ~Running(hdl[h].pc))
            => (~Result(hdl[h].pc).rejected /\ Result(hdl[h].pc).success)

\* the run of a second request has ended in the catch block: its payload
\* was null
C12_Witness ==
    /\ \E h \in Handlers : hdl[h].pc = "caught" /\ Result(hdl[h].pc).error
    /\ ops = 2

\* C13, as stated: every POST is answered with status 200, whatever the
\* payload, the signature or the outcome of internal processing.
C13_AlwaysStatus200 == post # NoPost => post.status = 200

\* C13, amended: a POST is answered with status 401 when its body is JSON, a
\* secret is configured and the signature is not the HMAC of the body under
\* the secret; every other POST is answered with status 200, whatever the
\* payload and the outcome of internal processing.
C13_Status200UnlessSignatureFails ==
    post # NoPost =>
        post.status = IF /\ JSONParse(post.body) # {}
                         /\ Configured
                         /\ post.signature # Hmac(secret, post.body)
                      THEN 401
                      ELSE 200

\* a body that is not JSON, with a signature that does not verify, has been
\* answered with 200 after the handler of an earlier request ended on an error
C13_Witness ==
    /\ post.status = 200
    /\ JSONParse(post.body) = {}
    /\ Configured
    /\ post.signature # Hmac(secret, post.body)
    /\ \E h \in Handlers : hdl[h].pc = "failed"

\* C14: handleWebhookEvent is invoked for a request only after
\* verifyWebhookSignature has returned true for the raw body and the
\* signature header of the request, and a request that fails verification
\* mutates no row of the store and starts no handler.
C14_InvokedOnlyAfterVerification ==
    /\ [](post.invoked => (~Configured \/ post.signature = Hmac(secret, post.body)))
    /\ [][(ops' # ops /\ post'.status = 401) => UNCHANGED <<storeVars, hdl>>]_vars

\* a request has failed verification after the handler of a verified request
\* has deleted a task
C14_Witness ==
    /\ post.status = 401
    /\ Configured
    /\ \E h \in Handlers : hdl[h].pc = "done" /\ hdl[h].payload.event.type = "taskDeleted"

\* C15: verifyWebhookSignature returns true when no secret is configured;
\* when one is configured it returns true exactly when the signature is the
\* HMAC of the payload under the secret, so the signature of a payload p
\* verifies for no payload other than p.
C15_VerifyWebhookSignature ==
    /\ (post # NoPost /\ JSONParse(post.body) # {}) =>
          (post.verified <=> (~Configured \/ post.signature = Hmac(secret, post.body)))
    /\ \A p \in Bodies, signature \in Signatures :
          VerifyWebhookSignature(p, signature)
              <=> (~Configured \/ signature = Hmac(secret, p))
    /\ Configured =>
          \A p \in Bodies : \A q \in Bodies \ {p} :
              ~VerifyWebhookSignature(q, Hmac(secret, p))

\* with a secret configured, the route has refused a body that carries the
\* signature of another body
C15_Witness ==
    /\ Configured
    /\ post.status = 401
    /\ ~post.verified
    /\ \E p \in Bodies \ {post.body} : post.signature = Hmac(secret, p)

\* C16: the response of the webhook route never waits on the store mutation
\* of the event: it is sent while handleWebhookEvent is still running, and no
\* step of the asynchronous work changes the response.
C16_ResponseNeverWaits ==
    /\ [](post.invoked => post.status = 200)
    /\ [][(ops' = ops) => post' = post]_vars

\* the response 200 has been sent and the handler it started is still at
\* its first await, the rate-limited getTask
C16_Witness ==
    /\ post.status = 200
    /\ post.invoked
    /\ \E h \in Handlers : hdl[h].pc = "getTask"

----------------------------------------------------------------------------
(* waitForSlot *)

\* the requests of the bucket that are in the window
Admitted(reqs) == Filter(Get(reqs[RL], BucketKey(RL)), now - WindowMs)

\* a checkLimit of caller w has returned true in this step: the bucket had
\* room and holds one more request, made now
OwnCheckReturnedTrue ==
    /\ Len(Admitted(requests)) < MaxRequests
    /\ Len(Admitted(requests')) = Len(Admitted(requests)) + 1
    /\ Admitted(requests')[Len(Admitted(requests'))] = now

\* 100 ms have passed in this step
HundredMsPassed ==
    requests' = [l \in Limiters |->
                   [key \in DOMAIN requests[l] |-> Aged(requests[l][key])]]

\* caller w is blocked in waitForSlot
Blocked(w) == waiter[w] \in {"sleep", "ready"}

\* waitForSlot returns only after a checkLimit of its own has returned true,
\* and checks again only after its timer of 100 ms has fired
WaitForSlotSafety ==
    [][\A w \in Waiters :
          /\ (Blocked(w) /\ waiter'[w] = "idle") =>
                (waiter[w] = "ready" /\ OwnCheckReturnedTrue)
          /\ (waiter[w] = "sleep" /\ waiter'[w] # "sleep") =>
                (waiter'[w] = "ready" /\ HundredMsPassed)]_vars

\* C17, as stated: waitForSlot returns only after a checkLimit of its own has
\* returned true, checks no more often than once per 100 ms, and, time
\* advancing, every caller blocked in it eventually returns, also when
\* several callers wait on the same bucket.
C17_EveryBlockedCallerReturns ==
    /\ WaitForSlotSafety
    /\ \A w \in Waiters : Blocked(w) ~> (waiter[w] = "idle")

\* C17, amended: the same, where the callers of the bucket start only
\* finitely many calls of waitForSlot.
C17_BlockedCallerReturnsWhenCallsCease ==
    /\ WaitForSlotSafety
    /\ \A w \in Waiters :
          (<>[][~\E v \in Waiters : Call(v)]_vars) => (Blocked(w) ~> (waiter[w] = "idle"))

\* every caller is blocked on the full bucket
C17_Witness ==
    /\ \A w \in Waiters : waiter[w] = "sleep"
    /\ Len(Admitted(requests)) = MaxRequests

----------------------------------------------------------------------------
(* Partial failure of syncList *)

\* the store holds, for every task the run fetched, exactly one row, with
\* the values mapped from the task: what a run that never failed leaves
Converged(s) ==
    \A k \in 1..Len(sync[s].tasksData) :
        LET task == sync[s].tasksData[k]
            rows == {r \in tasks : r.clickup_task_id = task.id}
        IN  /\ Cardinality(rows) = 1
            /\ \A r \in rows : /\ r.list_id = sync[s].list
                               /\ r.due_date = StoredDueDate(task)
                               /\ r.status_type = task.status_type

\* C18: when a batch upsert of syncList fails, the call throws, the error
\* naming the batch, and attempts no further batch; the list row and the rows
\* of the batches committed before stay stored; and every run that gets
\* through its batches, a run made after a failed one included, leaves the
\* rows that a run that never failed leaves.
C18_BatchFailureAborts ==
    /\ [][\A s \in Syncs :
            (sync[s].pc = "upsertTasks" /\ sync'[s].pc # "upsertTasks"
                /\ sync'[s].pc # "registerWebhook")
            => /\ sync'[s].pc = "failed"
               /\ sync'[s].i = sync[s].i
               /\ UNCHANGED <<lists, tasks>>]_vars
    /\ [][\A s \in Syncs :
            (sync[s].pc = "failed" /\ sync'[s] # sync[s]) => ops' = ops + 1]_vars
    /\ [][\A s \in Syncs :
            (sync[s].pc = "upsertTasks" /\ sync'[s].pc = "registerWebhook")
            => (Converged(s))']_vars

\* the second batch of a run has failed: the list row and the row of the
\* first batch are stored, the row of the second is not
C18_Witness ==
    \E s \in Syncs :
        /\ sync[s].pc = "failed"
        /\ sync[s].i = BatchSize
        /\ lists # {}
        /\ Cardinality(tasks) = 1
        /\ Cardinality(DOMAIN remoteTasks) = 2

\* the registration of the run has failed: the callback URL is set, the run
\* has found no active registration and has ended without a row of its own
RegistrationFailed(s) ==
    /\ sync[s].pc = "done"
    /\ callbackUrl # NULL
    /\ sync[s].existingWebhook = {}
    /\ ~\E w \in webhooks : w.clickup_webhook_id = sync[s].webhook

\* C19: a failure of the webhook registration of syncList, of the remote
\* creation or of the insert of the row, is caught: syncList returns success
\* with the list and the task statistics, and the list and task rows it
\* wrote remain.
C19_RegistrationFailureCaught ==
    /\ [][\A s \in Syncs :
            (sync[s].pc \in {"createWebhook", "insertWebhook"} /\ sync'[s] # sync[s])
            => /\ sync'[s].pc \in {"insertWebhook", "done"}
               /\ UNCHANGED <<lists, tasks>>]_vars
    /\ [][\A s \in Syncs :
            (Running(sync[s].pc) /\ (RegistrationFailed(s))')
            => (/\ SyncResult(s).success
                /\ SyncResult(s).stats.tasks = Len(sync[s].tasksData)
                /\ \E l \in lists : l.id = SyncResult(s).list
                /\ Converged(s))']_vars

\* the remote webhook has been created, the insert of its row has failed,
\* and the run has returned with the task it stored
C19_Witness ==
    \E s \in Syncs :
        /\ RegistrationFailed(s)
        /\ sync[s].webhook # 0
        /\ sync[s].tasksData # <<>>

----------------------------------------------------------------------------
(* Folder-level sync *)

\* the lists whose syncList has returned, in the order of the folder
Succeeded ==
    SelectSeq([j \in 1..Len(folder.run) |-> j], LAMBDA j : folder.run[j] = "returned")

\* C20: on both paths of folder-level sync, a failure while syncing one list
\* is caught for that list: syncList is still called for every other list,
\* and the folder sync is reported as a success with the lists that
\* succeeded.
C20_PerListFailureCaught ==
    (folder.run # <<>> /\ \A k \in 1..Len(folder.run) : folder.run[k] \notin {"pending", "running"})
        => /\ folder.response.status = 200
           /\ folder.response.success
           /\ folder.response.results = Succeeded

----------------------------------------------------------------------------
(* The resolution of a view URL *)

Resolving == \E s \in Syncs : sync[s].pc = "resolve" /\ res.pc \in {"view", "try"}

\* C21: when no candidate of a view URL validates against the remote API,
\* syncList throws, the add-list route answers its caller with the error
\* (status 500), and no step of the invocation up to there writes a list, task,
\* comment, webhook or history row.
C21_ResolutionFailureAbortsBeforeWrite ==
    [][ /\ Resolving => UNCHANGED storeVars
        /\ (Resolving /\ res'.pc = "thrown") =>
              \E s \in Syncs : /\ sync[s].pc = "resolve"
                               /\ sync'[s].pc = "failed"
                               /\ (AddListResponse(s))'.status = 500 ]_vars

\* a view URL whose three candidates all failed, on a store that holds rows
C21_Witness ==
    /\ res.pc = "thrown" /\ res.isView /\ Len(res.tried) = 3
    /\ lists # {} /\ tasks # {}
    /\ \E s \in Syncs : sync[s].pc = "failed"

\* C25: the candidates of a view URL are the list id of the view lookup, when
\* it yields one, followed by the slices of the split token; they are tried in
\* that order, nothing is tried after a success, and the resolved id is the
\* candidate of the first success.
C25_FirstValidCandidateWins ==
    (res.isView /\ res.pc \in {"try", "found", "thrown", "fetched"}) =>
        /\ res.candidates = Unshift(Heuristics(res.parts), res.view)
        /\ Len(res.tried) <= Len(res.candidates)
        /\ \A k \in 1..(Len(res.tried) - 1) : ~res.tried[k]
        /\ res.pc = "try" => (\A k \in 1..Len(res.tried) : ~res.tried[k])
        /\ res.pc \in {"found", "fetched"} =>
              /\ res.tried # <<>> /\ res.tried[Len(res.tried)]
              /\ res.listId = res.candidates[Len(res.tried)]
        /\ res.pc = "thrown" =>
              /\ Len(res.tried) = Len(res.candidates)
              /\ \A k \in 1..Len(res.tried) : ~res.tried[k]

\* the id of the view lookup failed, the middle slice validated and the last
\* candidate was never tried
C25_Witness ==
    /\ res.isView /\ res.pc = "found"
    /\ res.view # <<>> /\ Len(res.candidates) = 3
    /\ res.tried = <<FALSE, TRUE>>
    /\ res.listId = SubSeq(res.parts, 2, Len(res.parts) - 1)

----------------------------------------------------------------------------
(* The comment events and the end of the handler *)

\* the comment that the event of handler h names exists at the remote service,
\* on the task the event names, and that task is stored
RemoteCommentOnStoredTask(h) ==
    LET payload == hdl[h].payload
    IN  /\ payload.event.type \in {"taskCommentPosted", "taskCommentUpdated"}
        /\ payload.task_id \in StoredTaskIds
        /\ \E c \in GetComments(payload.task_id) : c.id = CommentId(payload.event)

\* exactly one comment row has the remote id of the event's comment, and it
\* carries the text of the remote comment and belongs to the row of its task
OneRowWithRemoteValues(h) ==
    LET payload == hdl[h].payload
        rows == {r \in comments : r.clickup_id = CommentId(payload.event)}
    IN  /\ Cardinality(rows) = 1
        /\ \A r \in rows : \A c \in GetComments(payload.task_id) :
              c.id = r.clickup_id =>
                 /\ r.text = c.text
                 /\ \E t \in tasks : t.id = r.task_id /\ t.clickup_task_id = c.task

\* C26: when the handler of a comment-posted or comment-updated event ends
\* without an error, for a comment that exists remotely on a stored task, the
\* store holds exactly one row of that comment with the remote values, whether
\* the comment was stored before or not.
C26_CommentEventUpserts ==
    [][\A h \in Handlers :
          (Running(hdl[h].pc) /\ (hdl[h].pc = "done")' /\ (RemoteCommentOnStoredTask(h))')
             => (OneRowWithRemoteValues(h))']_vars

\* the payload carries no event, or an event of a type without a handler
Ignored(payload) ==
    \/ payload.event = NoEvent
    \/ payload.event.type \notin {"taskCreated", "taskUpdated", "taskDeleted",
                                  "taskCommentPosted", "taskCommentUpdated",
                                  "taskCommentDeleted"}

\* C27: the call of the handler with a payload that carries no event or an
\* event of an unrecognized type ends at once, before any call of the remote
\* API, and leaves the task, comment and history rows as they were.
C27_IgnoredEventIsNoOp ==
    [][\A h \in Handlers :
          (ops' = ops + 1 /\ ~Running(hdl[h].pc) /\ Ignored(hdl'[h].payload))
             => /\ ~Running(hdl'[h].pc)
                /\ hdl'[h].taskData = {} /\ hdl'[h].comment = {}
                /\ UNCHANGED <<tasks, comments, history, remoteVars, remoteComments>>]_vars

\* an unrecognized event was handled while the store held a task and a comment
C27_Witness ==
    \E h \in Handlers :
        /\ hdl[h].pc = "done" /\ hdl[h].payload.event.type = "listUpdated"
        /\ tasks # {} /\ comments # {}

\* the step by which a run of the handler ends
Ends(h) == Running(hdl[h].pc) \/ ops' = ops + 1

----------------------------------------------------------------------------
(* deleteList *)

\* C22: when deleteList deletes the list row, the deletion of every webhook
\* registration of the list has been attempted at the remote service before,
\* and afterwards no task, comment or registration row of the list is left.
C22_RemoteWebhooksFirstThenCascade ==
    [][(del.pc = "deleteRow" /\ del'.pc = "done") =>
          LET gone == {t.id : t \in {x \in tasks : x.list_id = del.list}}
          IN  /\ \A w \in webhooks : w.list_id = del.list => w.clickup_webhook_id \in del.attempted
              /\ ~\E l \in lists' : l.id = del.list
              /\ ~\E t \in tasks' : t.list_id = del.list
              /\ ~\E w \in webhooks' : w.list_id = del.list
              /\ ~\E c \in comments' : c.task_id \in gone]_vars

\* C23: when syncList returns its result, every remote comment of every task
\* it fetched has a row in the comments table.
C23_SyncStoresComments ==
    [][\A s \in Syncs :
          (Running(sync[s].pc) /\ sync'[s].pc = "done") =>
             \A c \in remoteComments :
                (\E k \in 1..Len(sync'[s].tasksData) : sync'[s].tasksData[k].id = c.task)
                   => \E r \in comments' : r.clickup_id = c.id]_vars

----------------------------------------------------------------------------
(* getTasks *)

\* C24: getTasks requests the pages 0, 1, 2, ... in this order; when it returns,
\* every requested page but the last was full, the last one was not, and the
\* result is the whole remote collection in its order; and every call ends,
\* also for a collection whose size is a multiple of the page size.
C24_GetTasksPagination ==
    /\ [](/\ \A k \in 1..Len(pager.requested) : pager.requested[k] = k - 1
          /\ pager.pc = "returned" =>
                /\ pager.allTasks = pager.remote
                /\ Len(pager.requested) = (Len(pager.remote) \div PageSize) + 1
                /\ \A k \in 1..Len(pager.requested) :
                      (Len(Page(pager.remote, k - 1)) < PageSize) <=> (k = Len(pager.requested)))
    /\ (pager.pc = "fetch" ~> pager.pc \in {"returned", "thrown"})

\* a collection of two full pages: the third page is requested, is empty, and
\* getTasks returns the rows of the first two
C24_Witness ==
    /\ pager.pc = "returned"
    /\ Len(pager.remote) = 2 * PageSize
    /\ pager.requested = <<0, 1, 2>>
    /\ Len(pager.allTasks) = 2 * PageSize

----------------------------------------------------------------------------
(* The buckets of one limiter *)

\* the results of the checkLimit calls on key from now on depend on the map
\* only through the requests of the key that are inside the window of the call:
\* two maps agree on them at every time from now on
SameResults(reqsA, reqsB, key) ==
    \A t \in now..(MaxTime + WindowMs) :
        /\ Filter(Get(reqsA, key), t - WindowMs) = Filter(Get(reqsB, key), t - WindowMs)
        /\ CheckLimit(reqsA, key, t, FALSE).ok = CheckLimit(reqsB, key, t, FALSE).ok

\* C29: a checkLimit (alone or as a turn of waitForSlot) or a reset on one key
\* leaves the results of every later checkLimit on another key as they were,
\* and a checkLimit that runs the cleanup leaves the results of every later
\* checkLimit on every key as the same call without the cleanup leaves them.
C29_BucketsIndependent ==
    [][/\ \A k1 \in Keys2 : \A k2 \in Keys2 \ {k1} :
             ((\E rnd \in BOOLEAN : CheckLimitOn(k1, rnd)) \/ Reset(k1))
                => SameResults(requests'[RL], requests[RL], k2)
       /\ \A k1 \in Keys2 : \A k \in Keys2 :
             CheckLimitOn(k1, TRUE)
                => SameResults(requests'[RL], CheckLimit(requests[RL], k1, now, FALSE).requests, k)
      ]_vars

\* the cleanup has dropped the bucket of k2, whose requests had all left the
\* window, while k1 is at its limit
C29_Witness ==
    /\ "k2" \notin DOMAIN requests[RL]
    /\ "k1" \in DOMAIN requests[RL]
    /\ ~CheckLimit(requests[RL], "k1", now, FALSE).ok
    /\ CheckLimit(requests[RL], "k2", now, FALSE).ok
    /\ now > WindowMs

----------------------------------------------------------------------------
(* The remote ids of the rows *)

\* C30: in every state no two list rows have the same remote list id, no two
\* task rows the same remote task id, and no two comment rows the same remote
\* comment id.
C30_RemoteIdsUnique ==
    /\ \A a, b \in lists : a.clickup_list_id = b.clickup_list_id => a = b
    /\ \A a, b \in tasks : a.clickup_task_id = b.clickup_task_id => a = b
    /\ \A a, b \in comments : a.clickup_id = b.clickup_id => a = b

\* a sync of the list and a comment event have both run to their ends, and
\* the store holds the list, its task and the comment
C30_Witness ==
    /\ \E s \in Syncs : sync[s].pc = "done"
    /\ \E h \in Handlers : hdl[h].pc = "done" /\ hdl[h].payload.event.type = "taskCommentPosted"
    /\ lists # {} /\ tasks # {} /\ comments # {}

\* C31: every stored task references exactly one stored list, every stored
\* comment exactly one stored task and every registration exactly one stored
\* list; the taskDeleted event and the deletion of a list leave no orphan row.
C31_NoOrphanRow ==
    /\ \A t \in tasks : Cardinality({l \in lists : l.id = t.list_id}) = 1
    /\ \A c \in comments : Cardinality({t \in tasks : t.id = c.task_id}) = 1
    /\ \A w \in webhooks : Cardinality({l \in lists : l.id = w.list_id}) = 1

\* the taskDeleted event of a stored task was handled: the task's row and its
\* comments are gone, the list is kept
C31_Witness ==
    /\ \E h \in Handlers : hdl[h].pc = "done" /\ hdl[h].payload.event.type = "taskDeleted"
    /\ remoteComments # {}
    /\ lists # {} /\ webhooks # {} /\ tasks = {} /\ comments = {}

\* the list was deleted with its tasks, comments and registrations
C31_ListWitness ==
    /\ del.pc = "done"
    /\ \E s \in Syncs : sync[s].pc = "done"
    /\ lists = {} /\ tasks = {} /\ comments = {} /\ webhooks = {}

\* the rows k of the fetched tasks of run s, for k in the set ks, are stored
\* in the table tbl under the list of the run
RowsStored(tbl, run, ks) ==
    \A k \in ks \cap (1..Len(run.tasksData)) :
        \E r \in tbl : /\ r.clickup_task_id = TaskRow(run.list, run.tasksData[k]).clickup_task_id
                        /\ r.list_id = run.list

\* C32: within one run of syncList the list row is upserted before the task
\* fetch, the fetch completes before the first batch is upserted, the batches
\* are upserted one after another, and the webhook registration is attempted
\* only after every batch has been upserted successfully.
C32_PipelineOrder ==
    [][\A s \in Syncs :
        /\ SyncGetTasks(s) => sync[s].list # 0 /\ ListExists(sync[s].list)
        /\ SyncUpsertBatch(s) =>
              /\ sync[s].tasksData # <<>> /\ sync[s].i < Len(sync[s].tasksData)
              /\ RowsStored(tasks, sync[s], 1..sync[s].i)
              /\ \/ sync'[s].pc = "failed" /\ tasks' = tasks
                 \/ /\ sync'[s].i = sync[s].i + BatchSize
                    /\ RowsStored(tasks', sync[s], 1..sync'[s].i)
        /\ (SyncStep(s) /\ sync'[s].pc = "registerWebhook") =>
              /\ ListExists(sync[s].list)
              /\ sync'[s].i >= Len(sync'[s].tasksData)
              /\ RowsStored(tasks', sync'[s], 1..Len(sync'[s].tasksData))
        /\ (SyncStep(s) /\ (remoteWebhooks' # remoteWebhooks \/ webhooks' # webhooks)) =>
              /\ sync[s].pc \in {"createWebhook", "insertWebhook"}
              /\ RowsStored(tasks, sync[s], 1..Len(sync[s].tasksData))
      ]_vars

\* a run that upserted two batches and then registered the webhook
C32_Witness ==
    \E s \in Syncs :
        /\ sync[s].pc = "done" /\ Len(sync[s].tasksData) = 2 * BatchSize
        /\ sync[s].i = 2 * BatchSize /\ sync[s].webhook # 0
        /\ RowsStored(tasks, sync[s], 1..2)
        /\ \E w \in webhooks : w.list_id = sync[s].list

\* C33: a taskCreated or taskUpdated event for a task whose list has no row in
\* the store creates or changes no task row and writes no due-date history row.
C33_NoWriteWithoutStoredList ==
    [][\A h \in Handlers :
          ( /\ HandleStep(h)
            /\ hdl[h].payload.event.type \in {"taskCreated", "taskUpdated"}
            /\ ~\E l \in lists : l.clickup_list_id = hdl[h].payload.list_id )
          => tasks' = tasks /\ history' = history]_vars

\* the history rows of the task with the internal id, in insertion order
HistoryOf(id) == SelectSeq(history, LAMBDA row : row.task_id = id)

\* C34: with no event in progress, the history rows of a task chain (each
\* row's new value is the next row's old value), the last row's new value is
\* the stored due date of the task, and no row has old = new.
C34_HistoryIsFaithfulLog ==
    (\A h \in Handlers : ~Running(hdl[h].pc)) =>
        \A id \in {history[k].task_id : k \in DOMAIN history} :
            LET rows == HistoryOf(id)
            IN  /\ \A k \in 1..(Len(rows) - 1) : rows[k].new_due_date = rows[k + 1].old_due_date
                /\ \A r \in tasks : r.id = id => rows[Len(rows)].new_due_date = r.due_date
                /\ \A k \in DOMAIN rows : rows[k].old_due_date # rows[k].new_due_date

\* C35: with no registration and no deletion in progress, every webhook that
\* exists at the remote service has a stored registration row, and the list
\* has at most one remote webhook.
C35_NoOrphanRemoteWebhook ==
    ( /\ \A s \in Syncs : sync[s].pc # "insertWebhook"
      /\ ~Running(del.pc) )
    => /\ \A id \in remoteWebhooks : \E w \in webhooks : w.clickup_webhook_id = id
       /\ Cardinality(remoteWebhooks) <= 1

\* the first time from t on at which a bucket with the log admits a call
NextAdmission(log, t) ==
    CHOOSE u \in t..(t + WindowMs) :
        /\ Len(Filter(log, u - WindowMs)) < MaxRequests
        /\ \A v \in t..(u - 1) : Len(Filter(log, v - WindowMs)) >= MaxRequests

\* C36: a checkLimit call that returns false appends no timestamp: the bucket
\* holds the in-window timestamps it held before the call, and the time at
\* which the bucket next admits a call is the same before and after, also for
\* the re-checks of callers blocked in waitForSlot.
C36_RefusedCallConsumesNoQuota ==
    [][(Len(calls') = Len(calls) + 1 /\ ~calls'[Len(calls')].ok) =>
         LET key == calls'[Len(calls')].key
             before == Get(requests[RL], key)
             after == Get(requests'[RL], key)
         IN  /\ after = Filter(before, now - WindowMs)
             /\ Len(after) = MaxRequests
             /\ Filter(after, now - WindowMs) = Filter(before, now - WindowMs)
             /\ NextAdmission(after, now) = NextAdmission(before, now)
             /\ \A k \in DOMAIN requests[RL] \ {key} : Get(requests'[RL], k) = requests[RL][k]
      ]_vars

\* two callers blocked in waitForSlot were refused, one of them twice, and the
\* bucket holds the admitted calls only
C36_Witness ==
    /\ Cardinality({w \in Waiters : waiter[w] = "sleep"}) >= 2
    /\ Cardinality({k \in DOMAIN calls : ~calls[k].ok}) >= 3
    /\ Len(Get(requests[RL], BucketKey(RL))) = MaxRequests

\* C37: retryOpenAICall calls fn at most maxRetries times; every call but the
\* last settled with a rate-limit error; a response is returned at once, an
\* error that is no rate-limit error is thrown at once, and after maxRetries
\* rate-limit errors the last of them is thrown.
C37_AtMostMaxRetriesCalls ==
    LET log == retry.log
        n == Len(log)
    IN  /\ n <= retry.maxRetries
        /\ \A k \in 1..(n - 1) : log[k] \in FnErrors /\ IsRateLimit(log[k])
        /\ (n > 0 /\ log[n] = FnResponse) => retry.pc = "returned"
        /\ (n > 0 /\ log[n] # FnResponse /\ ~IsRateLimit(log[n])) => retry.pc = "thrown"
        /\ retry.pc = "call" => n < retry.maxRetries
        /\ retry.pc = "returned" => n > 0 /\ log[n] = FnResponse /\ retry.result = n
        /\ retry.pc = "thrown" =>
              \/ retry.maxRetries = 0 /\ n = 0 /\ retry.thrown = {}
              \/ /\ n > 0 /\ log[n] # FnResponse
                 /\ retry.thrown = {[n |-> n] @@ log[n]}
                 /\ IsRateLimit(log[n]) => n = retry.maxRetries

\* fn failed with a rate-limit error maxRetries times and the last error is thrown
C37_Witness ==
    /\ retry.pc = "thrown" /\ retry.maxRetries >= 2
    /\ Len(retry.log) = retry.maxRetries
    /\ \A k \in DOMAIN retry.log : IsRateLimit(retry.log[k])

\* fn succeeded at its second call, after one rate-limit error
C37_ReturnedWitness ==
    /\ retry.pc = "returned" /\ retry.maxRetries > 2 /\ Len(retry.log) = 2

====
